---- MODULE Spec2Model ----
(***************************************************************************)
(* A model of the two facade clients of the ChRIS JavaScript libraries:     *)
(*   chrisAPI  Client       (src/js/chrisAPI/src/client.js)                 *)
(*   chrisStoreAPI StoreClient (src/js/chrisStoreAPI/src/client.js)         *)
(* A program constructs one client object and then calls its methods one   *)
(* at a time; every HTTP request a method issues is answered by the server *)
(* (the environment) with a failure or with a Collection+JSON collection.  *)
(***************************************************************************)
EXTENDS Integers, Sequences, FiniteSets, TLC

VARIABLES
    cls,                \* class of the client object the program constructs
    ctor,               \* outcome of the constructor call
    auth,               \* this.auth
    urls,               \* Client: the eight cached top-level urls
    pipelinesUrl,       \* StoreClient: this.pipelinesUrl
    pipelinesQueryUrl,  \* StoreClient: this.pipelinesQueryUrl
    res,                \* the resource object a program working on a resource holds
    op                  \* the method call in progress and its promise

vars == <<cls, ctor, auth, urls, pipelinesUrl, pipelinesQueryUrl, res, op>>

-----------------------------------------------------------------------------
(* Bounds of the model *)

MaxVersion == 2     \* generations of urls the entry point may advertise
MaxId == 2          \* resource ids 1..MaxId
MaxItems == 2       \* items in one response collection
OtherTimeout == 5000 \* a timeout a caller passes instead of the default
MaxLinks == 2       \* links of a container handed to the collection functions
MaxCalls == 2       \* calls issued concurrently on one client

DefaultTimeout == 30000

-----------------------------------------------------------------------------
(* JavaScript values *)

Str(s) == [t |-> "str", v |-> s]
Arr(a) == [t |-> "arr", v |-> a]
Num(n) == [t |-> "num", v |-> n]
Obj(o) == [t |-> "obj", v |-> o]
Null == [t |-> "null", v |-> 0]
Undefined == [t |-> "undefined", v |-> 0]

\* truthiness as tested by `x ? a : b`, `x || y` and `if (x)`
Truthy(x) ==
    CASE x.t = "str" -> x.v # ""
      [] x.t = "num" -> x.v # 0
      [] x.t = "arr" -> TRUE
      [] x.t = "obj" -> TRUE
      [] OTHER -> FALSE

\* a || b
Or(a, b) == IF Truthy(a) THEN a ELSE b

RECURSIVE Join(_)
Join(a) ==
    IF a = <<>> THEN ""
    ELSE IF Len(a) = 1 THEN a[1]
    ELSE a[1] \o "," \o Join(Tail(a))

\* string coercion, as in `this.pipelinesUrl + 'search/'`
JSToString(x) ==
    CASE x.t = "str" -> x.v
      [] x.t = "arr" -> Join(x.v)
      [] x.t = "null" -> "null"
      [] x.t = "undefined" -> "undefined"
      [] OTHER -> ToString(x.v)

\* a[0]
First(a) == IF a.v = <<>> THEN Undefined ELSE Str(a.v[1])

-----------------------------------------------------------------------------
(* Collection+JSON *)

Rels == {"files", "plugins", "plugin_instances", "pipelines",
         "pipeline_instances", "tags", "uploadedfiles", "user"}

Ids == 1..MaxId
Versions == 1..MaxVersion
Timeouts == {DefaultTimeout, OtherTimeout}

Link(rel, href) == [rel |-> rel, href |-> href]

RECURSIVE SelectHrefs(_, _)
SelectHrefs(links, rel) ==
    IF links = <<>> THEN <<>>
    ELSE (IF Head(links).rel = rel THEN <<Head(links).href>> ELSE <<>>)
         \o SelectHrefs(Tail(links), rel)

\* null instead of an empty array when no link has the relation
getLinkRelationUrlsOrNull(obj, rel) ==
    IF SelectHrefs(obj.links, rel) = <<>> THEN [t |-> "null", v |-> 0]
    ELSE [t |-> "arr", v |-> SelectHrefs(obj.links, rel)]

\* Collection.getLinkRelationUrls(obj, relName): the hrefs of the links of obj
\* with that relation, in source order
getLinkRelationUrls(obj, rel) == Arr(SelectHrefs(obj.links, rel))


Item(id) ==
    [href |-> "item/" \o ToString(id) \o "/", id |-> id,
     data |-> <<[name |-> "id", value |-> id]>>, links |-> <<>>]

\* Collection.getItemDescriptors(item): name -> value, a later descriptor of the
\* same name overwriting an earlier one
getItemDescriptors(item) ==
    [n \in {item.data[i].name : i \in DOMAIN item.data} |->
        LET last == CHOOSE i \in DOMAIN item.data :
                        /\ item.data[i].name = n
                        /\ \A j \in DOMAIN item.data : item.data[j].name = n => j <= i
        IN item.data[last].value]

Coll(links, items) == [links |-> links, items |-> items]

\* the item a server creates for a POST: a new id, the fields it was sent
Created(url, id, fields) ==
    [href |-> url \o ToString(id) \o "/", id |-> id,
     data |-> <<[name |-> "id", value |-> id]>> \o fields, links |-> <<>>]

-----------------------------------------------------------------------------
(* The server: what a request may be answered with *)

Href(rel, v, alt) == rel \o "/v" \o ToString(v) \o (IF alt THEN "/alt/" ELSE "/")

\* The links of an entry-point collection of generation v; the relations in
\* `absent` are not advertised, those in `twice` are advertised by two links.
RECURSIVE EntryLinksOf(_, _, _, _)
EntryLinksOf(rels, v, absent, twice) ==
    IF rels = {} THEN <<>>
    ELSE LET r == CHOOSE x \in rels : TRUE
             own == IF r \in absent THEN <<>>
                    ELSE IF r \in twice
                         THEN <<Link(r, Href(r, v, FALSE)), Link(r, Href(r, v, TRUE))>>
                         ELSE <<Link(r, Href(r, v, FALSE))>>
         IN own \o EntryLinksOf(rels \ {r}, v, absent, twice)

AtMostOne(S) == {{}} \cup {{x} : x \in S}

\* relations the entry point of some servers does not advertise
OptionalRels == {"pipelines", "tags", "uploadedfiles", "user"}

\* every relation advertised once, in any generation of the urls; or, in the
\* first, one optional relation missing or every relation advertised by two
\* links
EntryLinks ==
    {EntryLinksOf(Rels, v, {}, {}) : v \in Versions}
    \cup {EntryLinksOf(Rels, 1, absent, {}) : absent \in AtMostOne(OptionalRels)}
    \cup {EntryLinksOf(Rels, 1, {}, Rels)}

RECURSIVE SeqsUpTo(_, _)
SeqsUpTo(S, n) ==
    IF n = 0 THEN {<<>>}
    ELSE LET shorter == SeqsUpTo(S, n - 1)
         IN shorter \cup {Append(q, x) : q \in shorter, x \in S}

Distinct(q) == \A i, j \in DOMAIN q : q[i] = q[j] => i = j

\* the items of a response: distinct resources, in any order
ItemLists ==
    {[i \in DOMAIN q |-> Item(q[i])] : q \in {x \in SeqsUpTo(Ids, MaxItems) : Distinct(x)}}

EntryColls == {Coll(l, i) : l \in EntryLinks, i \in ItemLists}

\* the lists related to a plugin or a pipeline of the store
RelatedRels == {"parameters", "default_parameters", "plugin_pipings", "plugins"}

\* the answers to the lookup of a plugin or pipeline by id: no item, or the
\* item with no link, one link or two links to one of its related lists
RelatedColls ==
    {Coll(<<>>, <<>>)}
    \cup {Coll(<<>>, <<[Item(id) EXCEPT !.links = l]>>) :
            id \in Ids,
            l \in {<<>>} \cup {<<Link(r, Href(r, 1, FALSE))>> : r \in RelatedRels}
                   \cup {<<Link(r, Href(r, 1, FALSE)), Link(r, Href(r, 1, TRUE))>> :
                           r \in RelatedRels}}
ListColls == {Coll(<<>>, i) : i \in ItemLists}

\* a write refused for the value of one field: 400, the body keyed by the field
FieldError(field) == [status |-> 400, body |-> field]

\* status 0: no response was received (network fault, timeout)
Failures == {[status |-> 0, body |-> "none"],
             [status |-> 404, body |-> "detail"],
             [status |-> 500, body |-> "detail"]}

-----------------------------------------------------------------------------
(* Transport: the Request object (./request) *)

Req(method, url, params, timeout, credentials, ctype, body) ==
    [method |-> method, url |-> url, params |-> params, timeout |-> timeout,
     auth |-> credentials, ctype |-> ctype, body |-> body]

CJ == "application/vnd.collection+json"
JSON == "application/json"

NoBody == [wrapped |-> FALSE, fields |-> <<>>, file |-> FALSE]
Template(fields) == [wrapped |-> TRUE, fields |-> fields, file |-> FALSE]
Plain(fields) == [wrapped |-> FALSE, fields |-> fields, file |-> FALSE]

\* a post with a file sent as a template of its data, the file left out
MultipartAsTemplate(fields) == [wrapped |-> TRUE, fields |-> fields, file |-> FALSE]

\* Request.post(url, data, uploadFileObj): a multipart body of the raw data
\* fields and the one binary part
Multipart(fields) == [wrapped |-> FALSE, fields |-> fields, file |-> TRUE]

MultipartType == "multipart/form-data"

\* new RequestException(message): request and response are set by the transport
\* when a request fails, and stay undefined otherwise
RequestException(msg, request, response) ==
    [t |-> "RequestException",
     v |-> [message |-> msg, request |-> request, response |-> response]]

\* a failed request is reported as one RequestException carrying a message, the
\* request and, when one was received, the response
TransportFailure(req, fail) ==
    RequestException("request failed", Obj(req),
                     IF fail.status = 0 THEN Undefined ELSE Obj(fail))

-----------------------------------------------------------------------------
(* Resource model: ListResource / ItemResource (./resource) *)

\* ListResource.get(searchParams = null, timeout = 30000)
ListGet(url, a, sp, t) == Req("GET", url, sp, t, a, CJ, NoBody)

\* ItemResource.get(timeout = 30000)
ItemGet(url, a, t) == Req("GET", url, Null, t, a, CJ, NoBody)

\* ListResource.post(data, timeout = 30000)
ListPost(url, a, data, t) == Req("POST", url, Null, t, a, CJ, Template(data))

\* ListResource.post(data, uploadFileObj, timeout = 30000)
ListPostFile(url, a, data, t) ==
    Req("POST", url, Null, t, a, MultipartType, Multipart(data))

ListResource(url, coll) == [t |-> "ListResource", v |-> [url |-> url, coll |-> coll]]
\* an item resource: the href of its item and a collection holding that item
ItemResource(item) ==
    [t |-> "ItemResource",
     v |-> [url |-> Str(item.href), coll |-> Coll(<<>>, <<item>>)]]

NotFoundError(id) ==
    [t |-> "NotFoundError",
     v |-> [message |-> "no item with id " \o ToString(id),
            request |-> Undefined, response |-> Undefined]]

TypeError == [t |-> "TypeError",
              v |-> [message |-> "cannot read property of undefined",
                     request |-> Undefined, response |-> Undefined]]

Matching(items, id) == SelectSeq(items, LAMBDA it : it.id = id)

\* ListResource.getItem(id): the item whose id field is id; a settled promise
getItem(coll, id) ==
    IF Matching(coll.items, id) = <<>>
    THEN [st |-> "rejected", val |-> NotFoundError(id)]
    ELSE [st |-> "resolved", val |-> ItemResource(Matching(coll.items, id)[1])]

\* ListResource.getItems()[0]
FirstItem(coll) ==
    IF coll.items = <<>> THEN Undefined ELSE ItemResource(coll.items[1])

-----------------------------------------------------------------------------
(* Promises and the method call in progress *)

Pending == [st |-> "pending", val |-> Undefined]
Resolved(x) == [st |-> "resolved", val |-> x]
Rejected(e) == [st |-> "rejected", val |-> e]

\* reqs: the requests sent so far, the last one in flight while pc is not
\* "idle" or "done"; got: the number of items of the last successful response
\* (-1: none yet); fail: the failure of the request that failed, or Null;
\* collAtCall: the collection of the resource object when the call was made;
\* data: the data argument of the call; found: the first item of the answer to
\* the lookup by id (Null: no item), Undefined until the lookup is answered
Idle == [kind |-> "none", pc |-> "idle", rel |-> "none", id |-> 0, sp |-> Null,
         timeout |-> 0, urlAtCall |-> Undefined, collAtCall |-> Null, reqs |-> <<>>,
         got |-> -1, fail |-> Null, result |-> Pending, data |-> <<>>,
         found |-> Undefined]

Call(kind, pc, rel, id, sp, t, url, req) ==
    [kind |-> kind, pc |-> pc, rel |-> rel, id |-> id, sp |-> sp, timeout |-> t,
     urlAtCall |-> url, collAtCall |-> Null, reqs |-> <<req>>, got |-> -1,
     fail |-> Null, result |-> Pending, data |-> <<>>, found |-> Undefined]

LastReq == op.reqs[Len(op.reqs)]

Send(o, pc, req) == [o EXCEPT !.pc = pc, !.reqs = Append(o.reqs, req)]
Settle(o, result) == [o EXCEPT !.pc = "done", !.result = result]
Got(o, coll) == [o EXCEPT !.got = Len(coll.items)]
Failed(o, f) == [o EXCEPT !.fail = Obj(f)]
WithData(o, data) == [o EXCEPT !.data = data]
Found(o, coll) ==
    [o EXCEPT !.found = IF coll.items = <<>> THEN Null ELSE Obj(coll.items[1])]

Credentials == {Obj("cube:cube1234")}
AuthInputs == Credentials \cup {Undefined, Null}
SearchParams == {Null} \cup {Obj(i) : i \in Ids}

-----------------------------------------------------------------------------
(* chrisAPI Client *)

ChrisUrl == "http://localhost:8000/api/v1/"

\* this.feedsUrl = this.url
feedsUrl == Str(ChrisUrl)

ListRels == Rels \ {"user"}
CreateRels == {"pipelines", "tags", "uploadedfiles"}

\* a constructor without the `if (!auth)` check
ClientConstructorUnchecked(a) == Undefined

\* constructor(url, auth): the exception it throws, or Undefined
ClientConstructor(a) ==
    IF ~Truthy(a)
    THEN RequestException("Authentication object is required", Undefined, Undefined)
    ELSE Undefined

\* the request of getFeeds(searchParams, timeout): feedList.get(searchParams, timeout)
getFeeds(sp, t) == ListGet(feedsUrl, auth, sp, t)

\* setUrls(timeout = 30000) { return this.getFeeds(timeout); }
setUrls(t) == getFeeds(Num(t), DefaultTimeout)

\* this.xUrl = getUrl(coll, 'x')
getFeedsThenOverwrites(u, coll) == [r \in Rels |-> getLinkRelationUrls(coll, r)]

\* the then-callback of getFeeds: this.xUrl = this.xUrl || getUrl(coll, 'x')
getFeedsThen(u, coll) == [r \in Rels |-> Or(u[r], getLinkRelationUrls(coll, r))]

\* getRes of _fetchRes: searchParams ? res.get(searchParams, timeout) : res.get(timeout)
getRes(resUrl, rel, sp, t) ==
    IF Truthy(sp) THEN ListGet(resUrl, auth, sp, t)
    ELSE IF rel = "user" THEN ItemGet(resUrl, auth, t)
    ELSE ListGet(resUrl, auth, Num(t), DefaultTimeout)

\* createRes of createPipeline, createTag and uploadFile
createRes(u, rel, data, t) ==
    IF rel = "uploadedfiles" THEN ListPostFile(u[rel], auth, data, t)
    ELSE ListPost(u[rel], auth, data, t)

CreateData(rel) ==
    CASE rel = "pipelines" -> <<[name |-> "name", value |-> "p"]>>
      [] rel = "tags" -> <<[name |-> "color", value |-> "red"]>>
      [] OTHER -> <<[name |-> "upload_path", value |-> "/test.txt"]>>

ClientReady == cls = "Client" /\ ctor.st = "ok" /\ op.pc = "idle"

Client_constructor(a) ==
    /\ ctor.st = "none"
    /\ cls' = "Client"
    /\ LET ex == ClientConstructor(a)
       IN IF ex # Undefined
          THEN /\ ctor' = [st |-> "threw", err |-> ex]
               /\ UNCHANGED <<auth, urls>>
          ELSE /\ ctor' = [st |-> "ok", err |-> Undefined]
               /\ auth' = a
               /\ urls' = [r \in Rels |-> Str("")]
    /\ UNCHANGED <<pipelinesUrl, pipelinesQueryUrl, op, res>>

Client_getFeeds(sp, t) ==
    /\ ClientReady
    /\ op' = Call("getFeeds", "feeds", "feeds", 0, sp, t, feedsUrl, getFeeds(sp, t))
    /\ UNCHANGED <<cls, ctor, auth, urls, pipelinesUrl, pipelinesQueryUrl, res>>

Client_setUrls(t) ==
    /\ ClientReady
    /\ op' = Call("setUrls", "feeds", "feeds", 0, Null, t, feedsUrl, setUrls(t))
    /\ UNCHANGED <<cls, ctor, auth, urls, pipelinesUrl, pipelinesQueryUrl, res>>

\* getFeed(id, timeout): this.getFeeds({ id: id }, timeout).then(getItem)
Client_getFeed(id, t) ==
    /\ ClientReady
    /\ op' = Call("getFeed", "feeds", "feeds", id, Obj(id), t, feedsUrl,
                  getFeeds(Obj(id), t))
    /\ UNCHANGED <<cls, ctor, auth, urls, pipelinesUrl, pipelinesQueryUrl, res>>

\* _fetchRes discovering on every call
fetchResAlwaysDiscovers(kind, rel, id, sp, t) ==
    Call(kind, "discover", rel, id, sp, t, urls[rel], setUrls(DefaultTimeout))

\* _fetchRes(resUrl, ResClass, searchParams, timeout):
\* resUrl ? getRes() : this.setUrls().then(() => getRes())
fetchRes(kind, rel, id, sp, t) ==
    LET resUrl == urls[rel]
    IN IF Truthy(resUrl)
       THEN Call(kind, "res", rel, id, sp, t, resUrl, getRes(resUrl, rel, sp, t))
       ELSE Call(kind, "discover", rel, id, sp, t, resUrl, setUrls(DefaultTimeout))

\* getFiles, getPlugins, getPluginInstances, getPipelines, getPipelineInstances,
\* getTags, getUploadedFiles
Client_getList(rel, sp, t) ==
    /\ ClientReady
    /\ op' = fetchRes("getList", rel, 0, sp, t)
    /\ UNCHANGED <<cls, ctor, auth, urls, pipelinesUrl, pipelinesQueryUrl, res>>

Client_getUser(t) ==
    /\ ClientReady
    /\ op' = fetchRes("getUser", "user", 0, Null, t)
    /\ UNCHANGED <<cls, ctor, auth, urls, pipelinesUrl, pipelinesQueryUrl, res>>

\* getFile, getPlugin, getPluginInstance, getPipeline, getPipelineInstance,
\* getTag, getUploadedFile: this.getXs({ id: id }, timeout).then(getItem)
Client_getItem(rel, id, t) ==
    /\ ClientReady
    /\ op' = fetchRes("getItem", rel, id, Obj(id), t)
    /\ UNCHANGED <<cls, ctor, auth, urls, pipelinesUrl, pipelinesQueryUrl, res>>

\* createPipeline, createTag, uploadFile:
\* this.xUrl ? createRes() : this.setUrls().then(() => createRes())
create(rel, t) ==
    IF Truthy(urls[rel])
    THEN Call("create", "post", rel, 0, Null, t, urls[rel],
              createRes(urls, rel, CreateData(rel), t))
    ELSE Call("create", "discover", rel, 0, Null, t, urls[rel],
              setUrls(DefaultTimeout))

Client_create(rel, t) ==
    /\ ClientReady
    /\ op' = create(rel, t)
    /\ UNCHANGED <<cls, ctor, auth, urls, pipelinesUrl, pipelinesQueryUrl, res>>

\* a feed as the feeds list returns it: an item with a link to its taggings
FeedItem(id) ==
    [Item(id) EXCEPT !.links = <<Link("taggings", Item(id).href \o "taggings/")>>]

\* the answers to a search of the feeds by id: no feed or one feed, under the
\* links of the entry point
FeedColls ==
    {Coll(EntryLinksOf(Rels, 1, {}, {}), items) :
        items \in {<<>>} \cup {<<FeedItem(id)>> : id \in Ids}}

TagData(tag_id) == <<[name |-> "tag_id", value |-> tag_id]>>

\* tagFeed(feed_id, tag_id, timeout): this.getFeed(feed_id, timeout)
Client_tagFeed(feed_id, tag_id, t) ==
    /\ ClientReady
    /\ op' = WithData(Call("tagFeed", "feeds", "taggings", feed_id, Obj(feed_id), t,
                           feedsUrl, getFeeds(Obj(feed_id), t)),
                      TagData(tag_id))
    /\ UNCHANGED <<cls, ctor, auth, urls, pipelinesUrl, pipelinesQueryUrl, res>>

\* Feed.getTaggings(timeout): the GET of the list the feed's taggings link names
getTaggings(feed, t) ==
    ListGet(First(getLinkRelationUrls(feed, "taggings")), auth, Null, t)

\* .then(feed => feed.getTaggings(timeout)), once getFeed has settled
tagFeedThen(o, coll) ==
    IF getItem(coll, o.id).st = "rejected" THEN Settle(o, getItem(coll, o.id))
    ELSE Send(o, "taggings", getTaggings(Matching(coll.items, o.id)[1], o.timeout))

Client_tagFeedThen(coll) ==
    /\ op.pc = "feeds" /\ op.kind = "tagFeed"
    /\ urls' = getFeedsThen(urls, coll)
    /\ op' = tagFeedThen(Got(op, coll), coll)
    /\ UNCHANGED <<cls, ctor, auth, pipelinesUrl, pipelinesQueryUrl, res>>

\* .then(listRes => listRes.post({ tag_id: tag_id }), timeout): post is called
\* with the data alone, timeout is the second argument of then
tagFeedPost(o) ==
    Send(o, "tagging", ListPost(o.reqs[Len(o.reqs)].url, auth, o.data, DefaultTimeout))

Client_tagFeedTaggingsThen(coll) ==
    /\ op.pc = "taggings"
    /\ op' = tagFeedPost(Got(op, coll))
    /\ UNCHANGED <<cls, ctor, auth, urls, pipelinesUrl, pipelinesQueryUrl, res>>

\* .then(listRes => listRes.getItems()[0]): the list answers the POST with the
\* tagging it created
Client_tagFeedTaggingThen(id) ==
    /\ op.pc = "tagging"
    /\ LET coll == Coll(<<>>, <<Created(JSToString(LastReq.url), id, LastReq.body.fields)>>)
       IN op' = Settle(Got(op, coll), Resolved(FirstItem(coll)))
    /\ UNCHANGED <<cls, ctor, auth, urls, pipelinesUrl, pipelinesQueryUrl, res>>

UsersUrl == ChrisUrl \o "users/"
AuthUrl == ChrisUrl \o "auth-token/"

Emails == {"user@babymri.org", "user/babymri.org"}
WellFormed(email) == email = "user@babymri.org"

UserData(email) ==
    <<[name |-> "username", value |-> "user"],
      [name |-> "password", value |-> "userpass"],
      [name |-> "email", value |-> email]>>

\* account creation sending its fields as a plain JSON object
createUserPlain(email, t) ==
    Req("POST", Str(UsersUrl), Null, t, Undefined, JSON, Plain(UserData(email)))

\* Client.createUser(usersUrl, username, password, email, timeout): its request
createUser(email, t) ==
    Req("POST", Str(UsersUrl), Null, t, Undefined, CJ, Template(UserData(email)))

\* Client.getAuthToken(authUrl, username, password, timeout): its request
getAuthToken(t) ==
    Req("POST", Str(AuthUrl), Null, t, Undefined, JSON,
        Plain(<<[name |-> "username", value |-> "user"],
                [name |-> "password", value |-> "userpass"]>>))

\* the then-callback of createUser: coll.items[0].href, new User(userUrl, auth)
createUserThen(coll) ==
    IF coll.items = <<>> THEN Rejected(TypeError)
    ELSE Resolved([t |-> "User", v |-> coll.items[1]])

\* .then(cb, cb): the then-callback run for a failed request too
createUserFailsBuildsUser(req, f) == Resolved([t |-> "User", v |-> Undefined])

\* req.post(usersUrl, userData).then(resp => ...): the request fails, the
\* then-callback does not run and the exception is the promise's rejection
createUserFails(req, f) == Rejected(TransportFailure(req, f))

Client_createUser(email, t) ==
    /\ op.pc = "idle"
    /\ op' = Call("createUser", "post", "users", 0, Null, t, Str(UsersUrl),
                  createUser(email, t))
    /\ UNCHANGED <<cls, ctor, auth, urls, pipelinesUrl, pipelinesQueryUrl, res>>

Client_getAuthToken(t) ==
    /\ op.pc = "idle"
    /\ op' = Call("getAuthToken", "post", "auth-token", 0, Null, t, Str(AuthUrl),
                  getAuthToken(t))
    /\ UNCHANGED <<cls, ctor, auth, urls, pipelinesUrl, pipelinesQueryUrl, res>>

(* Responses *)

\* a chain that turns the status of the response into an exception type
PropagateByStatus(ex) ==
    Rejected([t |-> IF ex.v.response = Undefined THEN "TimeoutError"
                    ELSE IF ex.v.response.v.status = 404 THEN "NotFoundError"
                    ELSE ex.t,
              v |-> ex.v])

\* the error a rejected promise chain hands to the caller: no method of Client
\* installs a rejection handler, so the transport's exception passes through
Propagate(ex) == Rejected(ex)

\* the positions of a Client call at which a request is in flight
ClientPcs == {"feeds", "discover", "res", "post", "taggings", "tagging"}

\* a failure handler that drops the cached urls
Client_requestFailsResetsUrls(f) ==
    /\ cls # "StoreClient"
    /\ op.pc \in ClientPcs
    /\ op' = Settle(Failed(op, f), Propagate(TransportFailure(LastReq, f)))
    /\ urls' = IF cls = "Client" THEN [r \in Rels |-> Str("")] ELSE urls
    /\ UNCHANGED <<cls, ctor, auth, pipelinesUrl, pipelinesQueryUrl, res>>

\* a request of the call in progress fails
Client_requestFails(f) ==
    /\ cls # "StoreClient"
    /\ op.pc \in ClientPcs
    /\ op' = Settle(Failed(op, f), Propagate(TransportFailure(LastReq, f)))
    /\ UNCHANGED <<cls, ctor, auth, urls, pipelinesUrl, pipelinesQueryUrl, res>>

\* getFeeds / setUrls: the entry point answers
Client_getFeedsThen(coll) ==
    /\ op.pc = "feeds" /\ op.kind \in {"getFeeds", "setUrls"}
    /\ urls' = getFeedsThen(urls, coll)
    /\ op' = Settle(Got(op, coll), Resolved(ListResource(feedsUrl, coll)))
    /\ UNCHANGED <<cls, ctor, auth, pipelinesUrl, pipelinesQueryUrl, res>>

Client_getFeedThen(coll) ==
    /\ op.pc = "feeds" /\ op.kind = "getFeed"
    /\ urls' = getFeedsThen(urls, coll)
    /\ op' = Settle(Got(op, coll), getItem(coll, op.id))
    /\ UNCHANGED <<cls, ctor, auth, pipelinesUrl, pipelinesQueryUrl, res>>

\* _fetchRes: this.setUrls().then(() => getRes()), getRes closing over resUrl
fetchResThen(o) == Send(o, "res", getRes(o.urlAtCall, o.rel, o.sp, o.timeout))

Client_fetchResThen(coll) ==
    /\ op.pc = "discover" /\ op.kind \in {"getList", "getUser", "getItem"}
    /\ urls' = getFeedsThen(urls, coll)
    /\ op' = fetchResThen(Got(op, coll))
    /\ UNCHANGED <<cls, ctor, auth, pipelinesUrl, pipelinesQueryUrl, res>>

\* createRes posting to the url the method saw when it was called
createThenStale(o, u) ==
    Send(o, "post",
         createRes([r \in Rels |-> o.urlAtCall], o.rel, CreateData(o.rel), o.timeout))

\* createX: this.setUrls().then(() => createRes()), createRes reading this.xUrl
createThen(o, u) == Send(o, "post", createRes(u, o.rel, CreateData(o.rel), o.timeout))

Client_createThen(coll) ==
    /\ op.pc = "discover" /\ op.kind = "create"
    /\ urls' = getFeedsThen(urls, coll)
    /\ op' = createThen(Got(op, coll), urls')
    /\ UNCHANGED <<cls, ctor, auth, pipelinesUrl, pipelinesQueryUrl, res>>

\* the resource answers the GET of getRes
getResThen(o, coll) ==
    CASE o.kind = "getItem" -> getItem(coll, o.id)
      [] o.kind = "getUser" -> Resolved([t |-> "User", v |-> coll])
      [] OTHER -> Resolved(ListResource(o.reqs[Len(o.reqs)].url, coll))

Client_getResThen(coll) ==
    /\ cls = "Client" /\ op.pc = "res"
    /\ op' = Settle(Got(op, coll), getResThen(op, coll))
    /\ UNCHANGED <<cls, ctor, auth, urls, pipelinesUrl, pipelinesQueryUrl, res>>

\* res.post(data, timeout).then(res => res.getItems()[0])
Client_createResThen(coll) ==
    /\ op.pc = "post" /\ op.kind = "create"
    /\ op' = Settle(Got(op, coll), Resolved(FirstItem(coll)))
    /\ UNCHANGED <<cls, ctor, auth, urls, pipelinesUrl, pipelinesQueryUrl, res>>

\* the list answers the POST with the item it created
Client_createResCreated(id) ==
    /\ op.pc = "post" /\ op.kind = "create"
    /\ Client_createResThen(
          Coll(<<>>, <<Created(JSToString(LastReq.url), id, LastReq.body.fields)>>))

EmailOf(req) == req.body.fields[3].value

\* the users endpoint accepts a well-formed email only
Client_createUserThen(coll) ==
    /\ op.pc = "post" /\ op.kind = "createUser"
    /\ WellFormed(EmailOf(LastReq))
    /\ op' = Settle(Got(op, coll), createUserThen(coll))
    /\ UNCHANGED <<cls, ctor, auth, urls, pipelinesUrl, pipelinesQueryUrl, res>>

\* the users endpoint answers 400 with an error keyed by the offending field
Client_createUserRejected ==
    /\ op.pc = "post" /\ op.kind = "createUser"
    /\ ~WellFormed(EmailOf(LastReq))
    /\ op' = Settle(Failed(op, FieldError("email")),
                     createUserFails(LastReq, FieldError("email")))
    /\ UNCHANGED <<cls, ctor, auth, urls, pipelinesUrl, pipelinesQueryUrl, res>>

\* req.post(authUrl, authData).then(resp => resp.data.token)
Client_getAuthTokenThen ==
    /\ op.pc = "post" /\ op.kind = "getAuthToken"
    /\ op' = Settle(op, Resolved(Str("token")))
    /\ UNCHANGED <<cls, ctor, auth, urls, pipelinesUrl, pipelinesQueryUrl, res>>

-----------------------------------------------------------------------------
(* chrisStoreAPI StoreClient *)

StoreUrl == "http://localhost:8010/api/v1/"

\* this.storeUrl, this.storeQueryUrl = storeUrl + 'search/'
storeUrl == Str(StoreUrl)
storeQueryUrl == Str(StoreUrl \o "search/")

\* hasNextPage telling whether the page holds items
getDataFromCollectionByItems(coll, collection_type) ==
    IF collection_type = "list"
    THEN [t |-> "list",
          v |-> [data |-> [i \in DOMAIN coll.items |-> getItemDescriptors(coll.items[i])],
                 hasNextPage |-> coll.items # <<>>,
                 hasPreviousPage |-> getLinkRelationUrls(coll, "previous").v # <<>>]]
    ELSE [t |-> "item", v |-> [data |-> getItemDescriptors(coll.items[1])]]

\* StoreClient.getDataFromCollection(coll, collection_type)
getDataFromCollection(coll, collection_type) ==
    IF collection_type = "list"
    THEN [t |-> "list",
          v |-> [data |-> [i \in DOMAIN coll.items |-> getItemDescriptors(coll.items[i])],
                 hasNextPage |-> getLinkRelationUrls(coll, "next").v # <<>>,
                 hasPreviousPage |-> getLinkRelationUrls(coll, "previous").v # <<>>]]
    ELSE [t |-> "item", v |-> [data |-> getItemDescriptors(coll.items[1])]]

\* a transport built without credentials where the client's are due
fetchCollectionAnonymous(url, sp) ==
    Req("GET", url, sp, DefaultTimeout, Undefined, CJ, NoBody)

\* _fetchCollection(url, searchParams = null): its request
fetchCollection(url, sp) == Req("GET", url, sp, DefaultTimeout, auth, CJ, NoBody)

\* the exception thrown when a lookup by id finds no item
CouldNotFind(id) ==
    RequestException("Could not find resource with id: " \o ToString(id),
                     Undefined, Undefined)

\* a then-callback without the `if (coll.items.length)` check
getItemResourceDataThenUnchecked(coll, id) ==
    IF Len(coll.items) # 0
    THEN Resolved(getDataFromCollection(coll, "item"))
    ELSE Resolved(Undefined)

\* _getItemResourceData(resQueryUrl, id): its then-callback
getItemResourceDataThen(coll, id) ==
    IF Len(coll.items) # 0
    THEN Resolved(getDataFromCollection(coll, "item"))
    ELSE Rejected(CouldNotFind(id))

\* setPipelinesUrls(): its then-callback, the two urls it assigns
setPipelinesUrlsThen(coll) ==
    LET url == getLinkRelationUrls(coll, "pipelines")
    IN [pipelinesUrl |-> url,
        pipelinesQueryUrl |-> Str(JSToString(url) \o "search/")]

StoreReady == cls = "StoreClient" /\ ctor.st = "ok" /\ op.pc = "idle"

\* constructor(storeUrl, auth = null, timeout = 30000)
Store_constructor(a) ==
    /\ ctor.st = "none"
    /\ cls' = "StoreClient"
    /\ ctor' = [st |-> "ok", err |-> Undefined]
    /\ auth' = IF a = Undefined THEN Null ELSE a
    /\ pipelinesUrl' = Str("")
    /\ pipelinesQueryUrl' = Str("")
    /\ UNCHANGED <<urls, op, res>>

\* getPlugins(searchParams = null)
Store_getPlugins(sp) ==
    /\ StoreReady
    /\ LET url == IF Truthy(sp) THEN storeQueryUrl ELSE storeUrl
       IN op' = Call("Store_getPlugins", "s_list", "plugins", 0, sp, DefaultTimeout,
                     url, fetchCollection(url, sp))
    /\ UNCHANGED <<cls, ctor, auth, urls, pipelinesUrl, pipelinesQueryUrl, res>>

\* getPlugin(id)
Store_getPlugin(id) ==
    /\ StoreReady
    /\ op' = Call("Store_getPlugin", "s_item", "plugins", id, Obj(id), DefaultTimeout,
                  storeQueryUrl, fetchCollection(storeQueryUrl, Obj(id)))
    /\ UNCHANGED <<cls, ctor, auth, urls, pipelinesUrl, pipelinesQueryUrl, res>>

\* removePlugin(id): _removeItemResource(this.storeQueryUrl, id)
Store_removePlugin(id) ==
    /\ StoreReady
    /\ op' = Call("Store_removePlugin", "s_lookup", "plugins", id, Obj(id),
                  DefaultTimeout, storeQueryUrl,
                  fetchCollection(storeQueryUrl, Obj(id)))
    /\ UNCHANGED <<cls, ctor, auth, urls, pipelinesUrl, pipelinesQueryUrl, res>>

\* setPipelinesUrls()
Store_setPipelinesUrls ==
    /\ StoreReady
    /\ op' = Call("Store_setPipelinesUrls", "s_entry", "pipelines", 0, Null,
                  DefaultTimeout, storeUrl, fetchCollection(storeUrl, Null))
    /\ UNCHANGED <<cls, ctor, auth, urls, pipelinesUrl, pipelinesQueryUrl, res>>

\* the first request of a pipelines method: to `url` when `known` is set, and
\* otherwise the request of setPipelinesUrls()
pipelinesCall(kind, pc, id, sp, known, url, urlSp) ==
    IF Truthy(known)
    THEN Call(kind, pc, "pipelines", id, sp, DefaultTimeout, url,
              fetchCollection(url, urlSp))
    ELSE Call(kind, "s_entry", "pipelines", id, sp, DefaultTimeout, known,
              fetchCollection(storeUrl, Null))

\* getPipelines(searchParams = null)
Store_getPipelines(sp) ==
    /\ StoreReady
    /\ op' = IF Truthy(sp)
             THEN pipelinesCall("Store_getPipelines", "s_list", 0, sp,
                                pipelinesQueryUrl, pipelinesQueryUrl, sp)
             ELSE pipelinesCall("Store_getPipelines", "s_list", 0, sp,
                                pipelinesUrl, pipelinesUrl, Null)
    /\ UNCHANGED <<cls, ctor, auth, urls, pipelinesUrl, pipelinesQueryUrl, res>>

\* getPipeline(id)
Store_getPipeline(id) ==
    /\ StoreReady
    /\ op' = pipelinesCall("Store_getPipeline", "s_item", id, Obj(id),
                           pipelinesQueryUrl, pipelinesQueryUrl, Obj(id))
    /\ UNCHANGED <<cls, ctor, auth, urls, pipelinesUrl, pipelinesQueryUrl, res>>

\* removePipeline(id)
Store_removePipeline(id) ==
    /\ StoreReady
    /\ op' = pipelinesCall("Store_removePipeline", "s_lookup", id, Obj(id),
                           pipelinesQueryUrl, pipelinesQueryUrl, Obj(id))
    /\ UNCHANGED <<cls, ctor, auth, urls, pipelinesUrl, pipelinesQueryUrl, res>>

\* StoreClient.createUser(usersUrl, username, password, email, timeout): its request
storeCreateUser(email, t) ==
    Req("POST", Str(StoreUrl \o "users/"), Null, t, Undefined, CJ,
        Template(UserData(email)))

\* StoreClient.getAuthToken(authUrl, username, password, timeout): its request
storeGetAuthToken(t) ==
    Req("POST", Str(StoreUrl \o "auth-token/"), Null, t, Undefined, JSON,
        Plain(<<[name |-> "username", value |-> "user"],
                [name |-> "password", value |-> "userpass"]>>))

Store_createUser(email, t) ==
    /\ StoreReady
    /\ op' = Call("Store_createUser", "s_post", "users", 0, Null, t,
                  Str(StoreUrl \o "users/"), storeCreateUser(email, t))
    /\ UNCHANGED <<cls, ctor, auth, urls, pipelinesUrl, pipelinesQueryUrl, res>>

Store_getAuthToken(t) ==
    /\ StoreReady
    /\ op' = Call("Store_getAuthToken", "s_token", "auth-token", 0, Null, t,
                  Str(StoreUrl \o "auth-token/"), storeGetAuthToken(t))
    /\ UNCHANGED <<cls, ctor, auth, urls, pipelinesUrl, pipelinesQueryUrl, res>>

\* resp => StoreClient.getDataFromCollection(resp.data.collection, 'item'), as
\* the then-callback of a promise chain: what it throws rejects the promise
itemDataThen(coll) ==
    IF coll.items = <<>> THEN Rejected(TypeError)
    ELSE Resolved(getDataFromCollection(coll, "item"))

\* the users endpoint answers with the created user:
\* resp => StoreClient.getDataFromCollection(resp.data.collection, 'item')
Store_createUserThen(coll) ==
    /\ cls = "StoreClient" /\ op.pc = "s_post"
    /\ WellFormed(EmailOf(LastReq))
    /\ op' = Settle(Got(op, coll), itemDataThen(coll))
    /\ UNCHANGED <<cls, ctor, auth, urls, pipelinesUrl, pipelinesQueryUrl, res>>

\* the users endpoint answers 400 with an error keyed by the offending field
Store_createUserRejected ==
    /\ cls = "StoreClient" /\ op.pc = "s_post"
    /\ ~WellFormed(EmailOf(LastReq))
    /\ op' = Settle(Failed(op, FieldError("email")),
                     Propagate(TransportFailure(LastReq, FieldError("email"))))
    /\ UNCHANGED <<cls, ctor, auth, urls, pipelinesUrl, pipelinesQueryUrl, res>>

\* req.post(authUrl, authData).then(resp => resp.data.token)
Store_getAuthTokenThen ==
    /\ cls = "StoreClient" /\ op.pc = "s_token"
    /\ op' = Settle(op, Resolved(Str("token")))
    /\ UNCHANGED <<cls, ctor, auth, urls, pipelinesUrl, pipelinesQueryUrl, res>>

\* getPluginParameters(pluginId, params = null)
Store_getPluginParameters(id, params) ==
    /\ StoreReady
    /\ op' = Call("Store_getPluginParameters", "s_rlookup", "parameters", id, params,
                  DefaultTimeout, storeQueryUrl,
                  fetchCollection(storeQueryUrl, Obj(id)))
    /\ UNCHANGED <<cls, ctor, auth, urls, pipelinesUrl, pipelinesQueryUrl, res>>

PipelineRelatedRels == {"default_parameters", "plugin_pipings", "plugins"}

\* getPipelineDefaultParameters, getPipelinePipings, getPipelinePlugins
\* (pipelineId, params = null)
Store_getPipelineRelated(listRelName, id, params) ==
    /\ StoreReady
    /\ op' = [pipelinesCall("Store_getPipelineRelated", "s_rlookup", id, params,
                            pipelinesQueryUrl, pipelinesQueryUrl, Obj(id))
                 EXCEPT !.rel = listRelName]
    /\ UNCHANGED <<cls, ctor, auth, urls, pipelinesUrl, pipelinesQueryUrl, res>>

\* result = { data: [], hasNextPage: false, hasPreviousPage: false }
EmptyListData ==
    [t |-> "list", v |-> [data |-> <<>>, hasNextPage |-> FALSE, hasPreviousPage |-> FALSE]]

\* _getResourceRelatedListData(resQueryUrl, id, listRelName, params): the lookup
\* answered
getResourceRelatedListDataLookup(o, coll) ==
    IF Len(coll.items) = 0
    THEN Settle(o, Rejected(CouldNotFind(o.id)))
    ELSE LET listLinks == getLinkRelationUrls(coll.items[1], o.rel)
         IN IF Len(listLinks.v) # 0
            THEN Send(o, "s_related", fetchCollection(First(listLinks), o.sp))
            ELSE Settle(o, Resolved(EmptyListData))

Store_getResourceRelatedListDataLookup(coll) ==
    /\ cls = "StoreClient" /\ op.pc = "s_rlookup"
    /\ op' = getResourceRelatedListDataLookup(Got(op, coll), coll)
    /\ UNCHANGED <<cls, ctor, auth, urls, pipelinesUrl, pipelinesQueryUrl, res>>

\* _getResourceRelatedListData: the related list answered
Store_getResourceRelatedListDataThen(coll) ==
    /\ cls = "StoreClient" /\ op.pc = "s_related"
    /\ op' = Settle(Got(op, coll), Resolved(getDataFromCollection(coll, "list")))
    /\ UNCHANGED <<cls, ctor, auth, urls, pipelinesUrl, pipelinesQueryUrl, res>>

\* the generator threw outside its try block: neither resolve nor reject is
\* called, no request is in flight and the promise stays pending
Thrown(o) == [o EXCEPT !.pc = "s_thrown"]

\* resolve(StoreClient.getDataFromCollection(resp.data.collection, 'item')),
\* after the try block of the task
resolveItemData(o, coll) ==
    IF coll.items = <<>> THEN Thrown(o)
    ELSE Settle(o, Resolved(getDataFromCollection(coll, "item")))

UserInfo ==
    <<[name |-> "email", value |-> "user@babymri.org"],
      [name |-> "password", value |-> "userpass"]>>

\* getUser(): resp = yield req.get(storeUrl)
Store_getUser ==
    /\ StoreReady
    /\ op' = Call("Store_getUser", "s_uentry", "user", 0, Null, DefaultTimeout,
                  storeUrl, Req("GET", storeUrl, Null, DefaultTimeout, auth, CJ, NoBody))
    /\ UNCHANGED <<cls, ctor, auth, urls, pipelinesUrl, pipelinesQueryUrl, res>>

\* updateUser(userInfoObj): resp = yield req.get(storeUrl)
Store_updateUser ==
    /\ StoreReady
    /\ op' = Call("Store_updateUser", "s_uentry", "user", 0, Null, DefaultTimeout,
                  storeUrl, Req("GET", storeUrl, Null, DefaultTimeout, auth, CJ, NoBody))
    /\ UNCHANGED <<cls, ctor, auth, urls, pipelinesUrl, pipelinesQueryUrl, res>>

\* getUser / updateUser: userUrls = getLinkRelationUrls(coll, 'user'), then
\* req.get(userUrls[0]) or req.put(userUrls[0], userData)
userRequest(o, coll) ==
    LET userUrls == getLinkRelationUrls(coll, "user")
    IN IF o.kind = "Store_getUser"
       THEN Send(o, "s_user",
                 Req("GET", First(userUrls), Null, DefaultTimeout, auth, CJ, NoBody))
       ELSE Send(o, "s_user",
                 Req("PUT", First(userUrls), Null, DefaultTimeout, auth, CJ,
                     Template(UserInfo)))

Store_userEntryThen(coll) ==
    /\ cls = "StoreClient" /\ op.pc = "s_uentry"
    /\ op' = userRequest(Got(op, coll), coll)
    /\ UNCHANGED <<cls, ctor, auth, urls, pipelinesUrl, pipelinesQueryUrl, res>>

\* the user resource answers:
\* resolve(StoreClient.getDataFromCollection(resp.data.collection, 'item'))
Store_userThen(coll) ==
    /\ cls = "StoreClient" /\ op.pc = "s_user"
    /\ op' = resolveItemData(Got(op, coll), coll)
    /\ UNCHANGED <<cls, ctor, auth, urls, pipelinesUrl, pipelinesQueryUrl, res>>

PublicRepos == {"", "https://github.com/FNNDSC/pl-simplefsapp"}

PluginData(publicRepo) ==
    <<[name |-> "name", value |-> "simplefsapp"],
      [name |-> "dock_image", value |-> "fnndsc/pl-simplefsapp"],
      [name |-> "public_repo", value |-> publicRepo]>>

\* addPlugin(name, dockImage, descriptorFile, publicRepo): its request,
\* req.post(this.storeUrl, data, { descriptor_file: descriptorFile })
addPlugin(publicRepo) ==
    Req("POST", storeUrl, Null, DefaultTimeout, auth, MultipartType,
        Multipart(PluginData(publicRepo)))

Store_addPlugin(publicRepo) ==
    /\ StoreReady
    /\ op' = Call("Store_addPlugin", "s_add", "plugins", 0, Null, DefaultTimeout,
                  storeUrl, addPlugin(publicRepo))
    /\ UNCHANGED <<cls, ctor, auth, urls, pipelinesUrl, pipelinesQueryUrl, res>>

Store_addPluginThen(coll) ==
    /\ cls = "StoreClient" /\ op.pc = "s_add"
    /\ op' = Settle(Got(op, coll), itemDataThen(coll))
    /\ UNCHANGED <<cls, ctor, auth, urls, pipelinesUrl, pipelinesQueryUrl, res>>

\* the store answers the POST with the plugin it created
Store_addPluginCreated(id) ==
    /\ cls = "StoreClient" /\ op.pc = "s_add"
    /\ Store_addPluginThen(Coll(<<>>, <<Created(StoreUrl, id, LastReq.body.fields)>>))

Owners == {"", "cube"}
CurrentRepo == "https://github.com/FNNDSC/pl-simplefsapp-old"

\* the answers of the store to the lookup of a plugin: the plugin as it is
PluginColls ==
    {Coll(<<>>, <<Created(StoreUrl, id, PluginData(CurrentRepo))>>) : id \in Ids}

ModifyPluginArgs(publicRepo, newOwner) ==
    <<[name |-> "publicRepo", value |-> publicRepo],
      [name |-> "newOwner", value |-> newOwner]>>

\* modifyPlugin(id, publicRepo = '', newOwner = ''): the lookup by id
Store_modifyPlugin(id, publicRepo, newOwner) ==
    /\ StoreReady
    /\ op' = WithData(Call("Store_modifyPlugin", "s_mlookup", "plugins", id, Obj(id),
                           DefaultTimeout, storeQueryUrl,
                           fetchCollection(storeQueryUrl, Obj(id))),
                      ModifyPluginArgs(publicRepo, newOwner))
    /\ UNCHANGED <<cls, ctor, auth, urls, pipelinesUrl, pipelinesQueryUrl, res>>

PipelineData == {<<[name |-> "name", value |-> "pipeline2"]>>,
                 <<[name |-> "name", value |-> "pipeline2"],
                   [name |-> "category", value |-> "mri"]>>}

\* modifyPipeline(id, data): if (!self.pipelinesQueryUrl) setPipelinesUrls(),
\* then the lookup by id
Store_modifyPipeline(id, data) ==
    /\ StoreReady
    /\ op' = WithData(pipelinesCall("Store_modifyPipeline", "s_mlookup", id, Obj(id),
                                    pipelinesQueryUrl, pipelinesQueryUrl, Obj(id)),
                      data)
    /\ UNCHANGED <<cls, ctor, auth, urls, pipelinesUrl, pipelinesQueryUrl, res>>

\* coll.items[0].data.filter(descriptor => descriptor.name === 'public_repo')
publicRepoOf(item) == SelectSeq(item.data, LAMBDA d : d.name = "public_repo")

\* data.public_repo always taken from the argument
modifyPluginDataFromArgs(item, publicRepo, newOwner) ==
    <<[name |-> "public_repo", value |-> publicRepo]>>
    \o (IF newOwner # "" THEN <<[name |-> "owner", value |-> newOwner]>> ELSE <<>>)

\* modifyPlugin: the data of its PUT
modifyPluginData(item, publicRepo, newOwner) ==
    <<[name |-> "public_repo",
       value |-> IF publicRepo # "" THEN publicRepo ELSE publicRepoOf(item)[1].value]>>
    \o (IF newOwner # "" THEN <<[name |-> "owner", value |-> newOwner]>> ELSE <<>>)

\* req.put(url, { template: Collection.makeTemplate(data) })
storePut(url, data) == Req("PUT", url, Null, DefaultTimeout, auth, CJ, Template(data))

\* modifyPlugin: the lookup answered; [0].value of an empty filter result throws
\* inside the try block
modifyPluginLookup(o, coll) ==
    IF Len(coll.items) # 0
    THEN LET publicRepo == o.data[1].value
             newOwner == o.data[2].value
         IN IF publicRepo = "" /\ publicRepoOf(coll.items[1]) = <<>>
            THEN Settle(o, Rejected(TypeError))
            ELSE Send(o, "s_put",
                      storePut(Str(coll.items[1].href),
                               modifyPluginData(coll.items[1], publicRepo, newOwner)))
    ELSE Settle(o, Rejected(CouldNotFind(o.id)))

\* modifyPipeline: the lookup answered
modifyPipelineLookup(o, coll) ==
    IF Len(coll.items) # 0
    THEN Send(o, "s_put", storePut(Str(coll.items[1].href), o.data))
    ELSE Settle(o, Rejected(CouldNotFind(o.id)))

Store_modifyPluginLookup(coll) ==
    /\ cls = "StoreClient" /\ op.pc = "s_mlookup" /\ op.kind = "Store_modifyPlugin"
    /\ op' = modifyPluginLookup(Found(Got(op, coll), coll), coll)
    /\ UNCHANGED <<cls, ctor, auth, urls, pipelinesUrl, pipelinesQueryUrl, res>>

Store_modifyPipelineLookup(coll) ==
    /\ cls = "StoreClient" /\ op.pc = "s_mlookup" /\ op.kind = "Store_modifyPipeline"
    /\ op' = modifyPipelineLookup(Found(Got(op, coll), coll), coll)
    /\ UNCHANGED <<cls, ctor, auth, urls, pipelinesUrl, pipelinesQueryUrl, res>>

\* modifyPlugin / modifyPipeline: the PUT answered
Store_modifyThen(coll) ==
    /\ cls = "StoreClient" /\ op.pc = "s_put"
    /\ op' = resolveItemData(Got(op, coll), coll)
    /\ UNCHANGED <<cls, ctor, auth, urls, pipelinesUrl, pipelinesQueryUrl, res>>

\* the item a server answers a PUT with: the item of the url, the fields it was
\* sent
Modified(req, id) ==
    [href |-> JSToString(req.url), id |-> id,
     data |-> <<[name |-> "id", value |-> id]>> \o req.body.fields, links |-> <<>>]

\* the store answers the PUT with the modified item
Store_modifyModified ==
    /\ cls = "StoreClient" /\ op.pc = "s_put"
    /\ Store_modifyThen(Coll(<<>>, <<Modified(LastReq, op.found.v.id)>>))

\* the positions of a StoreClient call at which a request is in flight
StorePcs == {"s_entry", "s_list", "s_item", "s_lookup", "s_delete", "s_post",
             "s_token", "s_rlookup", "s_related", "s_uentry", "s_user", "s_add",
             "s_mlookup", "s_put"}

\* a failure handler that sends the failed request once more
Store_requestFailsRetries(f) ==
    /\ cls = "StoreClient"
    /\ op.pc \in StorePcs
    /\ op' = IF op.fail = Null
             THEN Send(Failed(op, f), op.pc, LastReq)
             ELSE Settle(Failed(op, f), Propagate(TransportFailure(LastReq, f)))
    /\ UNCHANGED <<cls, ctor, auth, urls, pipelinesUrl, pipelinesQueryUrl, res>>

\* a request of the call in progress fails: the promise chains hand the
\* exception on, the generator tasks catch it and reject(ex)
Store_requestFails(f) ==
    /\ cls = "StoreClient"
    /\ op.pc \in StorePcs
    /\ op' = Settle(Failed(op, f), Propagate(TransportFailure(LastReq, f)))
    /\ UNCHANGED <<cls, ctor, auth, urls, pipelinesUrl, pipelinesQueryUrl, res>>

\* the request a pipelines method sends once setPipelinesUrls() has resolved
afterPipelinesUrls(o, pUrl, pQueryUrl) ==
    CASE o.kind = "Store_getPipelines" ->
            IF Truthy(o.sp)
            THEN Send(o, "s_list", fetchCollection(pQueryUrl, o.sp))
            ELSE Send(o, "s_list", fetchCollection(pUrl, o.sp))
      [] o.kind = "Store_getPipeline" ->
            Send(o, "s_item", fetchCollection(pQueryUrl, Obj(o.id)))
      [] o.kind = "Store_removePipeline" ->
            Send(o, "s_lookup", fetchCollection(pQueryUrl, Obj(o.id)))
      [] o.kind = "Store_getPipelineRelated" ->
            Send(o, "s_rlookup", fetchCollection(pQueryUrl, Obj(o.id)))
      [] o.kind = "Store_modifyPipeline" ->
            Send(o, "s_mlookup", fetchCollection(pQueryUrl, Obj(o.id)))
      [] OTHER -> Settle(o, Resolved(Undefined))

\* the entry point answers the request of setPipelinesUrls()
Store_setPipelinesUrlsThen(coll) ==
    /\ cls = "StoreClient" /\ op.pc = "s_entry"
    /\ LET set == setPipelinesUrlsThen(coll)
       IN /\ pipelinesUrl' = set.pipelinesUrl
          /\ pipelinesQueryUrl' = set.pipelinesQueryUrl
          /\ op' = afterPipelinesUrls(Got(op, coll), set.pipelinesUrl, set.pipelinesQueryUrl)
    /\ UNCHANGED <<cls, ctor, auth, urls, res>>

\* _getListResourceData(resUrl, searchParams): its then-callback
Store_getListResourceDataThen(coll) ==
    /\ cls = "StoreClient" /\ op.pc = "s_list"
    /\ op' = Settle(Got(op, coll), Resolved(getDataFromCollection(coll, "list")))
    /\ UNCHANGED <<cls, ctor, auth, urls, pipelinesUrl, pipelinesQueryUrl, res>>

Store_getItemResourceDataThen(coll) ==
    /\ cls = "StoreClient" /\ op.pc = "s_item"
    /\ op' = Settle(Got(op, coll), getItemResourceDataThen(coll, op.id))
    /\ UNCHANGED <<cls, ctor, auth, urls, pipelinesUrl, pipelinesQueryUrl, res>>

\* a removal deleting the last item of the lookup response
removeItemResourceLookupDeletesLast(o, coll) ==
    IF Len(coll.items) # 0
    THEN Send(o, "s_delete",
              Req("DELETE", Str(coll.items[Len(coll.items)].href), Null,
                  DefaultTimeout, auth, CJ, NoBody))
    ELSE Settle(o, Rejected(CouldNotFind(o.id)))

\* a lookup that finds nothing resolving as if the resource had been removed
removeItemResourceLookupIgnoresMissing(o, coll) ==
    IF Len(coll.items) # 0
    THEN Send(o, "s_delete",
              Req("DELETE", Str(coll.items[1].href), Null, DefaultTimeout, auth,
                  CJ, NoBody))
    ELSE Settle(o, Resolved(Undefined))

\* _removeItemResource(resQueryUrl, id): the lookup answered
removeItemResourceLookup(o, coll) ==
    IF Len(coll.items) # 0
    THEN Send(o, "s_delete",
              Req("DELETE", Str(coll.items[1].href), Null, DefaultTimeout, auth,
                  CJ, NoBody))
    ELSE Settle(o, Rejected(CouldNotFind(o.id)))

Store_removeItemResourceLookup(coll) ==
    /\ cls = "StoreClient" /\ op.pc = "s_lookup"
    /\ op' = removeItemResourceLookup(Found(Got(op, coll), coll), coll)
    /\ UNCHANGED <<cls, ctor, auth, urls, pipelinesUrl, pipelinesQueryUrl, res>>

\* _removeItemResource: the DELETE answered, resolve()
Store_removeItemResourceDone ==
    /\ cls = "StoreClient" /\ op.pc = "s_delete"
    /\ op' = Settle(op, Resolved(Undefined))
    /\ UNCHANGED <<cls, ctor, auth, urls, pipelinesUrl, pipelinesQueryUrl, res>>

-----------------------------------------------------------------------------
(* Resource objects: a list resource and its item resources (./resource),     *)
(* driven the way the resource tests drive a comment list                     *)

CommentsUrl == ChrisUrl \o "1/comments/"

Comment(title, content) ==
    <<[name |-> "title", value |-> title], [name |-> "content", value |-> content]>>

\* the data the tests post and put
CommentData == {Comment("POST test comment", "POST test comment content"),
                Comment("PUT test comment", "PUT test comment content")}

CommentItem(id, data) ==
    [href |-> CommentsUrl \o ToString(id) \o "/", id |-> id,
     data |-> <<[name |-> "id", value |-> id]>> \o data, links |-> <<>>]

\* the comments a list response may hold: distinct comments, in any order
CommentLists ==
    {[i \in DOMAIN q |-> CommentItem(q[i][1], q[i][2])] :
        q \in {x \in SeqsUpTo(Ids \X CommentData, MaxItems) :
                 Distinct([i \in DOMAIN x |-> x[i][1]])}}

CommentColls == {Coll(<<>>, i) : i \in CommentLists}

\* the object a request method was called on
This == [t |-> "this", v |-> 0]

\* the collection a resource object holds: Null until a response filled it
collection(r) == r.v.coll

\* the object holding the collection of a response
WithCollection(r, coll) == [t |-> r.t, v |-> [url |-> r.v.url, coll |-> coll]]

\* ItemResource.put(data, timeout = 30000)
ItemPut(url, a, data, t) == Req("PUT", url, Null, t, a, CJ, Template(data))

\* ItemResource.delete(timeout = 30000)
ItemDelete(url, a, t) == Req("DELETE", url, Null, t, a, CJ, NoBody)

\* get: on success the object's collection is replaced by the response
GetThen(r, coll) == [obj |-> WithCollection(r, coll), result |-> Resolved(This)]

\* post resolving to the list with the created item added after the old ones
PostThenAppends(r, coll) ==
    [obj |-> WithCollection(r,
                Coll(coll.links,
                     (IF collection(r) = Null THEN <<>> ELSE collection(r).items)
                     \o coll.items)),
     result |-> Resolved(This)]

\* post: resolves to ``this`` object, holding the collection of the response
PostThen(r, coll) == [obj |-> WithCollection(r, coll), result |-> Resolved(This)]

\* put resolving to a new object and leaving the one it was called on as it was
PutThenFresh(r, coll) == [obj |-> r, result |-> Resolved(WithCollection(r, coll))]

\* put: resolves to ``this`` object, holding the item of the response
PutThen(r, coll) == [obj |-> WithCollection(r, coll), result |-> Resolved(This)]

\* delete emptying the local object
DeleteThenEmpties(r) == [obj |-> WithCollection(r, Null), result |-> Resolved(Undefined)]

\* delete: the local object is not destroyed, it becomes stale
DeleteThen(r) == [obj |-> r, result |-> Resolved(Undefined)]

ResourceReady == cls = "Resource" /\ ctor.st = "ok" /\ op.pc = "idle"

\* a call on the resource object, remembering the collection it held
ResourceCall(kind, pc, t, req) ==
    [Call(kind, pc, "comments", 0, Null, t, req.url, req)
        EXCEPT !.collAtCall = collection(res)]

\* new CommentList(url, auth)
Resource_constructor(a) ==
    /\ ctor.st = "none"
    /\ cls' = "Resource"
    /\ ctor' = [st |-> "ok", err |-> Undefined]
    /\ auth' = a
    /\ res' = ListResource(Str(CommentsUrl), Null)
    /\ UNCHANGED <<urls, pipelinesUrl, pipelinesQueryUrl, op>>

\* res.get(timeout)
Resource_get(t) ==
    /\ ResourceReady
    /\ op' = ResourceCall("Resource_get", "r_get", t,
                IF res.t = "ListResource"
                THEN ListGet(res.v.url, auth, Null, t)
                ELSE ItemGet(res.v.url, auth, t))
    /\ UNCHANGED <<cls, ctor, auth, urls, pipelinesUrl, pipelinesQueryUrl, res>>

\* commentList.post(data, timeout)
Resource_post(data, t) ==
    /\ ResourceReady /\ res.t = "ListResource"
    /\ op' = ResourceCall("Resource_post", "r_post", t,
                          ListPost(res.v.url, auth, data, t))
    /\ UNCHANGED <<cls, ctor, auth, urls, pipelinesUrl, pipelinesQueryUrl, res>>

\* commentListRes.getItems()[i].clone(): the program goes on with the item
Resource_getItems(i) ==
    /\ ResourceReady /\ res.t = "ListResource" /\ collection(res) # Null
    /\ i \in DOMAIN collection(res).items
    /\ res' = ItemResource(collection(res).items[i])
    /\ UNCHANGED <<cls, ctor, auth, urls, pipelinesUrl, pipelinesQueryUrl, op>>

\* commentItem.put(data, timeout)
Resource_put(data, t) ==
    /\ ResourceReady /\ res.t = "ItemResource"
    /\ op' = ResourceCall("Resource_put", "r_put", t,
                          ItemPut(res.v.url, auth, data, t))
    /\ UNCHANGED <<cls, ctor, auth, urls, pipelinesUrl, pipelinesQueryUrl, res>>

\* commentItem.delete(timeout)
Resource_delete(t) ==
    /\ ResourceReady /\ res.t = "ItemResource"
    /\ op' = ResourceCall("Resource_delete", "r_delete", t,
                          ItemDelete(res.v.url, auth, t))
    /\ UNCHANGED <<cls, ctor, auth, urls, pipelinesUrl, pipelinesQueryUrl, res>>

ResourcePcs == {"r_get", "r_post", "r_put", "r_delete"}

\* a failure handler that drops the collection of the object
Resource_requestFailsDropsCollection(f) ==
    /\ op.pc \in ResourcePcs
    /\ op' = Settle(Failed(op, f), Propagate(TransportFailure(LastReq, f)))
    /\ res' = WithCollection(res, Null)
    /\ UNCHANGED <<cls, ctor, auth, urls, pipelinesUrl, pipelinesQueryUrl>>

\* the request of the call in progress fails: the then-callback does not run
Resource_requestFails(f) ==
    /\ op.pc \in ResourcePcs
    /\ op' = Settle(Failed(op, f), Propagate(TransportFailure(LastReq, f)))
    /\ UNCHANGED <<cls, ctor, auth, urls, pipelinesUrl, pipelinesQueryUrl, res>>

\* the id in the href of an item resource
IdOf(r) == CHOOSE id \in Ids : r.v.url = Str(CommentItem(id, <<>>).href)

\* the answers to a get: a page of the list, or the item as the server has it
GetAnswers(r) ==
    IF r.t = "ListResource" THEN CommentColls
    ELSE {Coll(<<>>, <<CommentItem(IdOf(r), d)>>) : d \in CommentData}

Resource_getThen(coll) ==
    /\ op.pc = "r_get"
    /\ coll \in GetAnswers(res)
    /\ LET then == GetThen(res, coll)
       IN /\ res' = then.obj
          /\ op' = Settle(Got(op, coll), then.result)
    /\ UNCHANGED <<cls, ctor, auth, urls, pipelinesUrl, pipelinesQueryUrl>>

\* the server answers a POST with the created item: a new id, the posted data
Resource_postThen(id) ==
    /\ op.pc = "r_post"
    /\ LET coll == Coll(<<>>, <<CommentItem(id, LastReq.body.fields)>>)
           then == PostThen(res, coll)
       IN /\ res' = then.obj
          /\ op' = Settle(Got(op, coll), then.result)
    /\ UNCHANGED <<cls, ctor, auth, urls, pipelinesUrl, pipelinesQueryUrl>>

\* the server answers a PUT with the modified item
Resource_putThen ==
    /\ op.pc = "r_put"
    /\ LET coll == Coll(<<>>, <<CommentItem(IdOf(res), LastReq.body.fields)>>)
           then == PutThen(res, coll)
       IN /\ res' = then.obj
          /\ op' = Settle(Got(op, coll), then.result)
    /\ UNCHANGED <<cls, ctor, auth, urls, pipelinesUrl, pipelinesQueryUrl>>

Resource_deleteThen ==
    /\ op.pc = "r_delete"
    /\ LET then == DeleteThen(res)
       IN /\ res' = then.obj
          /\ op' = Settle(op, then.result)
    /\ UNCHANGED <<cls, ctor, auth, urls, pipelinesUrl, pipelinesQueryUrl>>

\* the caller takes the settled promise
Return ==
    /\ op.pc = "done"
    /\ op' = Idle
    /\ UNCHANGED <<cls, ctor, auth, urls, pipelinesUrl, pipelinesQueryUrl, res>>

-----------------------------------------------------------------------------

Init ==
    /\ cls = "none"
    /\ ctor = [st |-> "none", err |-> Undefined]
    /\ auth = Undefined
    /\ urls = [r \in Rels |-> Undefined]
    /\ pipelinesUrl = Undefined
    /\ pipelinesQueryUrl = Undefined
    /\ res = Undefined
    /\ op = Idle

ClientNext ==
    \/ \E a \in AuthInputs : Client_constructor(a)
    \/ \E sp \in SearchParams, t \in Timeouts : Client_getFeeds(sp, t)
    \/ \E t \in Timeouts : Client_setUrls(t)
    \/ \E id \in Ids, t \in Timeouts : Client_getFeed(id, t)
    \/ \E rel \in ListRels, sp \in SearchParams, t \in Timeouts : Client_getList(rel, sp, t)
    \/ \E t \in Timeouts : Client_getUser(t)
    \/ \E rel \in ListRels, id \in Ids, t \in Timeouts : Client_getItem(rel, id, t)
    \/ \E rel \in CreateRels, t \in Timeouts : Client_create(rel, t)
    \/ \E e \in Emails, t \in Timeouts : Client_createUser(e, t)
    \/ \E t \in Timeouts : Client_getAuthToken(t)
    \/ \E f \in Failures : Client_requestFails(f)
    \/ \E coll \in EntryColls : Client_getFeedsThen(coll)
    \/ \E coll \in EntryColls : Client_getFeedThen(coll)
    \/ \E coll \in EntryColls : Client_fetchResThen(coll)
    \/ \E coll \in EntryColls : Client_createThen(coll)
    \/ \E coll \in ListColls : Client_getResThen(coll)
    \/ \E coll \in ListColls : Client_createResThen(coll)
    \/ \E id \in Ids : Client_createResCreated(id)
    \/ \E f \in Ids, g \in Ids, t \in Timeouts : Client_tagFeed(f, g, t)
    \/ \E coll \in FeedColls : Client_tagFeedThen(coll)
    \/ \E coll \in ListColls : Client_tagFeedTaggingsThen(coll)
    \/ \E id \in Ids : Client_tagFeedTaggingThen(id)
    \/ \E coll \in ListColls : Client_createUserThen(coll)
    \/ Client_createUserRejected
    \/ Client_getAuthTokenThen

StoreNext ==
    \/ \E a \in AuthInputs : Store_constructor(a)
    \/ \E sp \in SearchParams : Store_getPlugins(sp)
    \/ \E id \in Ids : Store_getPlugin(id)
    \/ \E id \in Ids : Store_removePlugin(id)
    \/ Store_setPipelinesUrls
    \/ \E sp \in SearchParams : Store_getPipelines(sp)
    \/ \E id \in Ids : Store_getPipeline(id)
    \/ \E id \in Ids : Store_removePipeline(id)
    \/ \E f \in Failures : Store_requestFails(f)
    \/ \E coll \in EntryColls : Store_setPipelinesUrlsThen(coll)
    \/ \E coll \in ListColls : Store_getListResourceDataThen(coll)
    \/ \E coll \in ListColls : Store_getItemResourceDataThen(coll)
    \/ \E coll \in ListColls : Store_removeItemResourceLookup(coll)
    \/ Store_removeItemResourceDone
    \/ \E e \in Emails, t \in Timeouts : Store_createUser(e, t)
    \/ \E t \in Timeouts : Store_getAuthToken(t)
    \/ \E coll \in ListColls : Store_createUserThen(coll)
    \/ Store_createUserRejected
    \/ Store_getAuthTokenThen
    \/ \E id \in Ids, sp \in SearchParams : Store_getPluginParameters(id, sp)
    \/ \E r \in PipelineRelatedRels, id \in Ids, sp \in SearchParams :
           Store_getPipelineRelated(r, id, sp)
    \/ \E coll \in RelatedColls : Store_getResourceRelatedListDataLookup(coll)
    \/ \E coll \in ListColls : Store_getResourceRelatedListDataThen(coll)
    \/ Store_getUser
    \/ Store_updateUser
    \/ \E coll \in EntryColls : Store_userEntryThen(coll)
    \/ \E coll \in ListColls : Store_userThen(coll)
    \/ \E p \in PublicRepos : Store_addPlugin(p)
    \/ \E coll \in ListColls : Store_addPluginThen(coll)
    \/ \E id \in Ids : Store_addPluginCreated(id)
    \/ \E id \in Ids, p \in PublicRepos, o \in Owners : Store_modifyPlugin(id, p, o)
    \/ \E id \in Ids, d \in PipelineData : Store_modifyPipeline(id, d)
    \/ \E coll \in ListColls \cup PluginColls : Store_modifyPluginLookup(coll)
    \/ \E coll \in ListColls : Store_modifyPipelineLookup(coll)
    \/ \E coll \in ListColls : Store_modifyThen(coll)
    \/ Store_modifyModified

ResourceNext ==
    \/ \E a \in Credentials : Resource_constructor(a)
    \/ \E t \in Timeouts : Resource_get(t)
    \/ \E d \in CommentData, t \in Timeouts : Resource_post(d, t)
    \/ \E i \in 1..MaxItems : Resource_getItems(i)
    \/ \E d \in CommentData, t \in Timeouts : Resource_put(d, t)
    \/ \E t \in Timeouts : Resource_delete(t)
    \/ \E f \in Failures : Resource_requestFails(f)
    \/ \E coll \in CommentColls \cup
                    {Coll(<<>>, <<CommentItem(i, d)>>) : i \in Ids, d \in CommentData} :
           Resource_getThen(coll)
    \/ \E id \in Ids : Resource_postThen(id)
    \/ Resource_putThen
    \/ Resource_deleteThen

Next == ClientNext \/ StoreNext \/ ResourceNext \/ Return

Spec == Init /\ [][Next]_vars

-----------------------------------------------------------------------------
(* The collection functions applied to a container: a collection of 0..N    *)
(* items or a single item, with any links in any order                       *)

LinkRels == {"next", "previous", "user"}

ContainerLinks ==
    SeqsUpTo({Link(r, Href(r, 1, alt)) : r \in LinkRels, alt \in BOOLEAN}, MaxLinks)

Containers ==
    {Coll(l, i) : l \in ContainerLinks, i \in ItemLists}
    \cup {[Item(id) EXCEPT !.links = l] : l \in ContainerLinks, id \in Ids}

Input(container, rel) ==
    [kind |-> "input", arg |-> container, rel |-> rel, out |-> Undefined]

CollectionInit ==
    /\ cls = "Collection"
    /\ ctor = [st |-> "none", err |-> Undefined]
    /\ auth = Undefined
    /\ urls = [r \in Rels |-> Undefined]
    /\ pipelinesUrl = Undefined
    /\ pipelinesQueryUrl = Undefined
    /\ res = Undefined
    /\ op \in {Input(c, r) : c \in Containers, r \in LinkRels}

\* Collection.getLinkRelationUrls(op.arg, op.rel)
Collection_getLinkRelationUrls ==
    /\ op.kind = "input"
    /\ op' = [op EXCEPT !.kind = "getLinkRelationUrls",
                        !.out = getLinkRelationUrls(op.arg, op.rel)]
    /\ UNCHANGED <<cls, ctor, auth, urls, pipelinesUrl, pipelinesQueryUrl, res>>

\* StoreClient.getDataFromCollection(op.arg, 'list')
Store_getDataFromCollection ==
    /\ op.kind = "input"
    /\ "items" \in DOMAIN op.arg
    /\ op' = [op EXCEPT !.kind = "getDataFromCollection",
                        !.out = getDataFromCollection(op.arg, "list")]
    /\ UNCHANGED <<cls, ctor, auth, urls, pipelinesUrl, pipelinesQueryUrl, res>>

CollectionNext == Collection_getLinkRelationUrls \/ Store_getDataFromCollection

CollectionSpec == CollectionInit /\ [][CollectionNext]_vars

-----------------------------------------------------------------------------
(* Concurrent calls: a program constructs a client and issues calls that     *)
(* need a top-level url without awaiting one before it issues the next; the   *)
(* responses arrive in any order                                              *)

Callers == 1..MaxCalls

\* the resources the concurrent calls fetch
ConcurrentRels == {"files", "tags"}

\* the responses of the entry point: its links, in any of their shapes
ConcurrentEntryColls == {Coll(l, <<>>) : l \in EntryLinks}

Concurrent(calls) == [kind |-> "concurrent", calls |-> calls]

\* new Client(url, auth) or new StoreClient(storeUrl, auth), no call issued yet
ConcurrentInit ==
    /\ cls \in {"Client", "StoreClient"}
    /\ ctor = [st |-> "ok", err |-> Undefined]
    /\ auth \in Credentials
    /\ urls = [r \in Rels |-> Str("")]
    /\ pipelinesUrl = Str("")
    /\ pipelinesQueryUrl = Str("")
    /\ res = Undefined
    /\ op = Concurrent([i \in Callers |-> Idle])

\* the i-th call settles or goes on as c
ConcurrentStep(i, c) == op' = Concurrent([op.calls EXCEPT ![i] = c])

\* client.getFiles(), client.getTags(): _fetchRes reads the cached url
Concurrent_getList(i, rel) ==
    /\ cls = "Client" /\ op.calls[i].pc = "idle"
    /\ ConcurrentStep(i, fetchRes("getList", rel, 0, Null, DefaultTimeout))
    /\ UNCHANGED <<cls, ctor, auth, urls, pipelinesUrl, pipelinesQueryUrl, res>>

\* storeClient.getPipelines(searchParams)
Concurrent_getPipelines(i, sp) ==
    /\ cls = "StoreClient" /\ op.calls[i].pc = "idle"
    /\ ConcurrentStep(i,
          IF Truthy(sp)
          THEN pipelinesCall("Store_getPipelines", "s_list", 0, sp,
                             pipelinesQueryUrl, pipelinesQueryUrl, sp)
          ELSE pipelinesCall("Store_getPipelines", "s_list", 0, sp,
                             pipelinesUrl, pipelinesUrl, Null))
    /\ UNCHANGED <<cls, ctor, auth, urls, pipelinesUrl, pipelinesQueryUrl, res>>

\* the entry point answers the setUrls() of the i-th call
Concurrent_fetchResThen(i, coll) ==
    /\ op.calls[i].pc = "discover"
    /\ urls' = getFeedsThen(urls, coll)
    /\ ConcurrentStep(i, fetchResThen(Got(op.calls[i], coll)))
    /\ UNCHANGED <<cls, ctor, auth, pipelinesUrl, pipelinesQueryUrl, res>>

\* the resource answers the GET of the i-th call
Concurrent_getResThen(i, coll) ==
    /\ op.calls[i].pc = "res"
    /\ ConcurrentStep(i, Settle(Got(op.calls[i], coll), getResThen(op.calls[i], coll)))
    /\ UNCHANGED <<cls, ctor, auth, urls, pipelinesUrl, pipelinesQueryUrl, res>>

\* the entry point answers the setPipelinesUrls() of the i-th call
Concurrent_setPipelinesUrlsThen(i, coll) ==
    /\ op.calls[i].pc = "s_entry"
    /\ LET set == setPipelinesUrlsThen(coll)
       IN /\ pipelinesUrl' = set.pipelinesUrl
          /\ pipelinesQueryUrl' = set.pipelinesQueryUrl
          /\ ConcurrentStep(i, afterPipelinesUrls(Got(op.calls[i], coll),
                                                  set.pipelinesUrl, set.pipelinesQueryUrl))
    /\ UNCHANGED <<cls, ctor, auth, urls, res>>

\* the pipelines list answers the GET of the i-th call
Concurrent_getListResourceDataThen(i, coll) ==
    /\ op.calls[i].pc = "s_list"
    /\ ConcurrentStep(i, Settle(Got(op.calls[i], coll),
                                Resolved(getDataFromCollection(coll, "list"))))
    /\ UNCHANGED <<cls, ctor, auth, urls, pipelinesUrl, pipelinesQueryUrl, res>>

\* a request of the i-th call fails
Concurrent_requestFails(i, f) ==
    /\ op.calls[i].pc \in ClientPcs \cup StorePcs
    /\ ConcurrentStep(i, Settle(Failed(op.calls[i], f),
                                Propagate(TransportFailure(
                                    op.calls[i].reqs[Len(op.calls[i].reqs)], f))))
    /\ UNCHANGED <<cls, ctor, auth, urls, pipelinesUrl, pipelinesQueryUrl, res>>

ConcurrentNext ==
    \/ \E i \in Callers, rel \in ConcurrentRels : Concurrent_getList(i, rel)
    \/ \E i \in Callers, sp \in SearchParams : Concurrent_getPipelines(i, sp)
    \/ \E i \in Callers, coll \in ConcurrentEntryColls : Concurrent_fetchResThen(i, coll)
    \/ \E i \in Callers : Concurrent_getResThen(i, Coll(<<>>, <<>>))
    \/ \E i \in Callers, coll \in ConcurrentEntryColls :
           Concurrent_setPipelinesUrlsThen(i, coll)
    \/ \E i \in Callers : Concurrent_getListResourceDataThen(i, Coll(<<>>, <<>>))
    \/ \E i \in Callers, f \in Failures : Concurrent_requestFails(i, f)

ConcurrentSpec == ConcurrentInit /\ [][ConcurrentNext]_vars

-----------------------------------------------------------------------------
(* Properties *)

Done == op.pc = "done"
FetchKinds == {"getList", "getUser", "getItem"}
Undiscovered == Str("")

\* the cached urls are exactly what one entry-point response advertises
AdvertisedBy(links) ==
    \A r \in Rels : urls[r] = getLinkRelationUrls([links |-> links], r)

\* C1: on a fresh Client a top-level fetch first discovers and then sends its
\* GET to the url discovered for its relation, never to the empty url.
C1_LazyFetchGoesToDiscoveredUrl ==
    (cls = "Client" /\ op.kind \in FetchKinds /\ op.urlAtCall = Undiscovered
        /\ Len(op.reqs) = 2)
    => /\ op.reqs[1].url = feedsUrl
       /\ op.reqs[2].url = urls[op.rel]
       /\ op.reqs[2].url # Undiscovered

\* C2: createPipeline, createTag and uploadFile on a fresh Client discover first
\* and then POST to the url discovered for their relation; with the url cached
\* they POST to it directly, without a discovery request.
C2_CreateDiscoversThenPosts ==
    (cls = "Client" /\ op.kind = "create")
    => IF Truthy(op.urlAtCall)
       THEN /\ Len(op.reqs) = 1
            /\ op.reqs[1].method = "POST"
            /\ op.reqs[1].url = op.urlAtCall
            /\ op.reqs[1].url = urls[op.rel]
       ELSE /\ op.reqs[1] = setUrls(DefaultTimeout)
            /\ op.reqs[1].method = "GET" /\ op.reqs[1].url = feedsUrl
            /\ Len(op.reqs) <= 2
            /\ Len(op.reqs) = 2 =>
                 /\ op.reqs[2].method = "POST"
                 /\ \E links \in EntryLinks :
                        /\ AdvertisedBy(links)
                        /\ op.reqs[2].url = getLinkRelationUrls([links |-> links], op.rel)

C2_Witness ==
    /\ cls = "Client" /\ op.kind = "create" /\ op.urlAtCall = Undiscovered
    /\ Len(op.reqs) = 2
    /\ JSToString(op.reqs[2].url) = Href(op.rel, 1, FALSE)
    /\ Done /\ op.result.st = "resolved"

\* C3: once a top-level url is cached, a top-level fetch of that resource sends
\* exactly one request, to the cached url, and no entry-point request.
C3_CachedFetchIsOneRequest ==
    (cls = "Client" /\ op.kind \in FetchKinds /\ Truthy(op.urlAtCall))
    => /\ Len(op.reqs) = 1
       /\ op.reqs[1].method = "GET"
       /\ op.reqs[1].url = op.urlAtCall
       /\ op.reqs[1].url = urls[op.rel]
       /\ op.reqs[1].url # feedsUrl

C3_Witness ==
    /\ cls = "Client" /\ op.kind \in FetchKinds /\ Truthy(op.urlAtCall)
    /\ Done /\ op.result.st = "resolved"

ExplicitDiscoveryDone ==
    /\ cls = "Client" /\ op.kind \in {"setUrls", "getFeeds"}
    /\ Done /\ op.result.st = "resolved"

\* C4 as stated: after a successful explicit re-discovery every cached top-level
\* url equals the url the newest entry-point response advertises.
C4_RediscoveryReplacesUrls ==
    ExplicitDiscoveryDone
    => \A r \in Rels : urls[r] = getLinkRelationUrls(op.result.val.v.coll, r)

\* C4 amended: a cached top-level url is never replaced; re-discovery leaves
\* every url that is already set as it was.
C4_CachedUrlsAreKept ==
    [][\A r \in Rels : (cls = "Client" /\ Truthy(urls[r])) => urls'[r] = urls[r]]_vars

C4_Witness ==
    /\ ExplicitDiscoveryDone
    /\ \A r \in Rels : Truthy(urls[r])
    /\ \E r \in Rels : urls[r] # getLinkRelationUrls(op.result.val.v.coll, r)

InstanceKinds == {"none", "createUser", "getAuthToken"}

\* C5 as stated: constructing a client without credentials fails at once with a
\* ConfigError.
C5_MissingCredentialsIsConfigError ==
    (ctor.st # "none" /\ ~Truthy(auth))
    => (ctor.st = "threw" /\ ctor.err.t = "ConfigError")

\* C5 amended: constructing a Client without an auth object throws a
\* RequestException from the constructor and no method of the client sends a
\* request; constructing a StoreClient without credentials succeeds.
C5_MissingCredentialsThrowsRequestException ==
    /\ (cls = "Client" /\ ctor.st = "ok") => Truthy(auth)
    /\ (cls = "Client" /\ ctor.st = "threw")
       => /\ ctor.err.t = "RequestException"
          /\ ctor.err.v.message = "Authentication object is required"
          /\ ctor.err.v.request = Undefined
          /\ op.kind \in InstanceKinds
    /\ (cls = "StoreClient") => ctor.st = "ok"

C5_Witness == cls = "Client" /\ ctor.st = "threw" /\ ~Truthy(auth)

LookupKinds == {"getFeed", "getItem", "Store_getPlugin", "Store_getPipeline"}

\* every request of the call was answered, the last answer holding no item
EmptyLookup == op.kind \in LookupKinds /\ Done /\ op.fail = Null /\ op.got = 0

\* C6 as stated: a lookup by id answered with zero items rejects with
\* NotFoundError, an error kind distinct from RequestException.
C6_EmptyLookupIsNotFoundError ==
    EmptyLookup => (op.result.st = "rejected" /\ op.result.val.t = "NotFoundError")

\* C6 amended: a lookup by id answered with zero items rejects and never
\* resolves with undefined or an empty item; StoreClient.getPlugin/getPipeline
\* reject with a RequestException 'Could not find resource with id: <id>'
\* that carries no request and no response, Client lookups with the error of
\* ListResource.getItem.
C6_EmptyLookupRejects ==
    /\ EmptyLookup =>
         /\ op.result.st = "rejected"
         /\ cls = "StoreClient" => op.result.val = CouldNotFind(op.id)
         /\ cls = "Client" => op.result.val = NotFoundError(op.id)
    /\ (op.kind \in LookupKinds /\ Done /\ op.result.st = "resolved")
       => /\ op.got > 0
          /\ op.result.val.t \in {"item", "ItemResource"}

C6_Witness ==
    /\ EmptyLookup /\ op.kind = "Store_getPlugin"
    /\ op.result.val.t = "RequestException"

\* C7: every failed request surfaces as a rejection with a RequestException
\* carrying a message, the request and, when one was received, the response
\* with its status and body, whatever the status.
C7_FailureIsRequestException ==
    (Done /\ op.fail # Null)
    => /\ op.result.st = "rejected"
       /\ op.result.val.t = "RequestException"
       /\ op.result.val.v.message = "request failed"
       /\ op.result.val.v.request = Obj(LastReq)
       /\ op.result.val.v.response =
            (IF op.fail.v.status = 0 THEN Undefined ELSE op.fail)

C7_Witness ==
    /\ Done /\ op.fail # Null /\ op.fail.v.status = 404
    /\ op.kind = "Store_removePlugin" /\ Len(op.reqs) = 2

MalformedEmailRefused ==
    /\ op.kind = "createUser" /\ Done
    /\ ~WellFormed(EmailOf(op.reqs[1]))
    /\ op.fail = Obj(FieldError("email"))

\* C8: createUser refused by the server for a malformed email rejects with a
\* RequestException whose response has status 400 and a body keyed by email,
\* and builds no User.
C8_MalformedEmailBuildsNoUser ==
    MalformedEmailRefused
    => /\ op.result.st = "rejected"
       /\ op.result.val.t = "RequestException"
       /\ op.result.val.v.response.v.status = 400
       /\ op.result.val.v.response.v.body = "email"
       /\ Len(op.reqs) = 1

C8_Witness == MalformedEmailRefused /\ op.result.st = "rejected"

DiscoveryInFlight == op.pc \in {"feeds", "discover", "s_entry"}

\* C9: when the entry-point request of getFeeds/setUrls or of a lazy discovery
\* fails, the promise rejects with that failure, no further request is sent and
\* no cached top-level url changes.
C9_FailedDiscoveryChangesNothing ==
    [][(DiscoveryInFlight /\ op'.fail # Null)
       => /\ op'.pc = "done"
          /\ op'.reqs = op.reqs
          /\ op'.result = Rejected(TransportFailure(LastReq, op'.fail.v))
          /\ urls' = urls
          /\ pipelinesUrl' = pipelinesUrl
          /\ pipelinesQueryUrl' = pipelinesQueryUrl]_vars

C9_Witness ==
    /\ cls = "Client" /\ op.kind = "getList" /\ op.urlAtCall = Undiscovered
    /\ Done /\ op.fail # Null /\ Len(op.reqs) = 1
    /\ op.result.st = "rejected"

\* C10: no operation retries: the requests of one call are pairwise distinct
\* steps of its chain (discovery, lookup, write: three at most), and a failed
\* request ends the call with that failure.
C10_NoRetry ==
    /\ \A i, j \in DOMAIN op.reqs : op.reqs[i] = op.reqs[j] => i = j
    /\ Len(op.reqs) <= 3
    /\ op.fail # Null
       => /\ Done
          /\ op.result.st = "rejected"
          /\ op.result.val.v.request = Obj(LastReq)

C10_Witness ==
    /\ cls = "StoreClient" /\ op.kind = "Store_removePipeline"
    /\ Done /\ op.fail # Null /\ Len(op.reqs) = 2

ResourceRequestKinds == {"Resource_get", "Resource_post", "Resource_put"}
ResourceKinds == ResourceRequestKinds \cup {"Resource_delete"}
Succeeded == Done /\ op.result.st = "resolved"

\* the first item of the object's collection carries the data of the request
HoldsRequestData ==
    LET item == collection(res).items[1]
        sent == LastReq.body.fields
    IN \A i \in DOMAIN sent : getItemDescriptors(item)[sent[i].name] = sent[i].value

\* C11 as stated: get, post and put return a new resource object and never
\* change the collection of the object they were called on.
C11_RequestReturnsNewObject ==
    (op.kind \in ResourceRequestKinds)
    => /\ collection(res) = op.collAtCall
       /\ Succeeded => op.result.val.t \in {"ListResource", "ItemResource"}

\* C11 amended: get, post and put resolve to the object they were called on;
\* its collection is unchanged while the request is in flight and holds the
\* response once the request has succeeded.
C11_RequestResolvesToThis ==
    (op.kind \in ResourceRequestKinds)
    => /\ op.result.st = "pending" => collection(res) = op.collAtCall
       /\ Succeeded
          => /\ op.result.val = This
             /\ collection(res) # Null
             /\ Len(collection(res).items) = op.got
             /\ op.kind \in {"Resource_post", "Resource_put"} => HoldsRequestData

C11_Witness ==
    /\ op.kind = "Resource_put" /\ Succeeded
    /\ collection(res) # op.collAtCall

\* C12: a resource operation that fails leaves the collection of the resource
\* object as it was when the call was made, whatever the failure (no response,
\* 404, 500); the collection differs from the one at the call only when the
\* operation has succeeded.
C12_FailedOperationKeepsSnapshot ==
    (op.kind \in ResourceKinds)
    => /\ op.fail # Null
          => /\ collection(res) = op.collAtCall
             /\ op.result.st = "rejected"
             /\ op.result.val.t = "RequestException"
       /\ collection(res) # op.collAtCall => Succeeded

C12_Witness ==
    /\ op.kind = "Resource_put" /\ Done
    /\ op.fail # Null /\ op.fail.v.status = 0
    /\ op.collAtCall # Null /\ collection(res) = op.collAtCall

READY(r) == r # Undefined /\ collection(r) # Null

\* C13: a resource object starts without a collection, gets one only through
\* the successful response of a get or post (or put), and once it holds one it
\* holds one after every later step: success, failure and delete included.
C13_ReadyIsNeverLost ==
    [][/\ (res = Undefined /\ res' # Undefined) => ~READY(res')
       /\ (res # Undefined /\ ~READY(res) /\ READY(res'))
          => /\ op.kind \in ResourceRequestKinds
             /\ op'.pc = "done" /\ op'.result.st = "resolved"
       /\ READY(res) => READY(res')]_vars

C13_Witness ==
    /\ op.kind = "Resource_delete" /\ Succeeded /\ READY(res)

\* the positions of the links of the container that have the relation
LinksWith(rel) == {i \in DOMAIN op.arg.links : op.arg.links[i].rel = rel}

\* C14: for every collection of 0..N items the list result's hasNextPage is
\* true exactly when some link of the collection has relation next, and
\* hasPreviousPage exactly when some link has relation previous.
C14_HasNextPageIffNextLink ==
    (op.kind = "getDataFromCollection")
    => /\ op.out.v.hasNextPage = (LinksWith("next") # {})
       /\ op.out.v.hasPreviousPage = (LinksWith("previous") # {})
       /\ Len(op.out.v.data) = Len(op.arg.items)

C14_Witness ==
    /\ op.kind = "getDataFromCollection"
    /\ op.arg.items = <<>>
    /\ op.out.v.hasNextPage /\ ~op.out.v.hasPreviousPage

\* C19: getLinkRelationUrls returns a sequence, empty when no link of the
\* container has the relation, and otherwise the href of every link with the
\* relation, one per link, in the order of the links.
C19_LinkRelationUrlsInSourceOrder ==
    (op.kind = "getLinkRelationUrls")
    => /\ op.out.t = "arr"
       /\ Len(op.out.v) = Cardinality(LinksWith(op.rel))
       /\ \A i \in LinksWith(op.rel) :
             op.out.v[Cardinality({j \in LinksWith(op.rel) : j <= i})]
                = op.arg.links[i].href

C19_Witness ==
    /\ op.kind = "getLinkRelationUrls"
    /\ op.arg.links # <<>> /\ LinksWith(op.rel) = {}
    /\ op.out = Arr(<<>>)

\* the static methods, which need no client object
StaticKinds == {"createUser", "getAuthToken", "Store_createUser", "Store_getAuthToken"}
CreateUserKinds == {"createUser", "Store_createUser"}
GetAuthTokenKinds == {"getAuthToken", "Store_getAuthToken"}

\* C15 as stated: every request carries credentials (username/password or
\* token), those of createUser and getAuthToken included.
C15_EveryRequestCarriesCredentials ==
    \A i \in DOMAIN op.reqs : op.reqs[i].auth \in Credentials

\* C15 amended: every request of an instance method carries the credentials the
\* object was constructed with (for a Client always an auth object, for a
\* StoreClient null when none was given); createUser and getAuthToken of both
\* clients send their request from a transport built with undefined
\* credentials.
C15_CredentialsAsConstructed ==
    /\ \A i \in DOMAIN op.reqs :
          op.reqs[i].auth = (IF op.kind \in StaticKinds THEN Undefined ELSE auth)
    /\ (cls \in {"Client", "Resource"} /\ op.kind \notin StaticKinds
         /\ op.reqs # <<>>)
       => auth \in Credentials

C15_Witness ==
    /\ op.kind = "Store_createUser" /\ Succeeded
    /\ auth \in Credentials /\ op.reqs[1].auth = Undefined

\* the names of the fields of a request body, in order
FieldNames(body) == [i \in DOMAIN body.fields |-> body.fields[i].name]

\* C16 as stated: createUser sends plain JSON {username, password, email}, not
\* a Collection+JSON template, as getAuthToken sends plain {username, password}.
C16_CreateUserSendsPlainJson ==
    (op.kind \in CreateUserKinds \cup GetAuthTokenKinds)
    => /\ ~op.reqs[1].body.wrapped
       /\ op.reqs[1].ctype = "application/json"

\* C16 amended: createUser sends one POST whose body is the Collection+JSON
\* template of username, password and email, with the Collection+JSON content
\* type; getAuthToken sends one POST of plain JSON {username, password}.
C16_CreateUserSendsTemplate ==
    /\ (op.kind \in CreateUserKinds)
       => /\ Len(op.reqs) = 1
          /\ op.reqs[1].method = "POST"
          /\ op.reqs[1].body.wrapped
          /\ FieldNames(op.reqs[1].body) = <<"username", "password", "email">>
          /\ op.reqs[1].ctype = "application/vnd.collection+json"
    /\ (op.kind \in GetAuthTokenKinds)
       => /\ Len(op.reqs) = 1
          /\ op.reqs[1].method = "POST"
          /\ ~op.reqs[1].body.wrapped
          /\ FieldNames(op.reqs[1].body) = <<"username", "password">>
          /\ op.reqs[1].ctype = "application/json"

C16_Witness ==
    /\ op.kind = "createUser" /\ Succeeded
    /\ op.reqs[1].body.wrapped

\* a url value that is one url: a string, or an array standing for its first
\* element
SingleFirstUrl(x) == (x.t = "arr" /\ x.v # <<>>) => JSToString(x) = x.v[1]

\* C17: when a relation has several links, the url stored by top-level
\* discovery (Client.getFeeds, StoreClient.setPipelinesUrls) and every url
\* requested is a single url, the first of the links in source order.
C17_FirstUrlWins ==
    /\ cls = "Client" => \A r \in Rels : SingleFirstUrl(urls[r])
    /\ cls = "StoreClient"
       => /\ SingleFirstUrl(pipelinesUrl)
          /\ (pipelinesUrl.t = "arr" /\ pipelinesUrl.v # <<>>)
             => pipelinesQueryUrl = Str(pipelinesUrl.v[1] \o "search/")
    /\ \A i \in DOMAIN op.reqs : SingleFirstUrl(op.reqs[i].url)
    /\ op.pc \in {"s_related", "s_user"} => LastReq.url.t # "arr"

RelatedKinds == {"Store_getPluginParameters", "Store_getPipelineRelated"}

\* the lookup of a related-list call found the item and was the last request
\* of the call: the item has no link to the list
RelatedLinkAbsent ==
    /\ op.kind \in RelatedKinds /\ Done /\ op.fail = Null /\ op.got > 0
    /\ LastReq.url \in {storeQueryUrl, pipelinesQueryUrl}

\* C18: a StoreClient operation whose link relation is absent from the response
\* fails with ProtocolError: it does not resolve with an empty result and sends
\* no request to an undefined or malformed url (undefined for a missing user
\* link, the empty array and 'search/' for a missing pipelines link).
C18_AbsentRelationIsProtocolError ==
    (cls = "StoreClient")
    => /\ RelatedLinkAbsent
          => (op.result.st = "rejected" /\ op.result.val.t = "ProtocolError")
       /\ \A i \in DOMAIN op.reqs :
             op.reqs[i].url \notin {Undefined, Arr(<<>>), Str("search/")}

\* C20: a successful post of {title: T, content: C} to a list resource resolves
\* to the list, whose first item is the item the server answered with: with the
\* server echoing the created item its descriptors hold title = T, content = C.
C20_PostResolvesToCreatedItem ==
    /\ (op.kind = "Resource_post" /\ Succeeded)
       => /\ op.result.val = This
          /\ LET created == getItemDescriptors(collection(res).items[1])
                 data == op.reqs[1].body.fields
             IN /\ created["title"] = data[1].value
                /\ created["content"] = data[2].value
    /\ (op.kind = "create" /\ Succeeded)
       => (IF op.got = 0 THEN op.result.val = Undefined
           ELSE op.result.val.t = "ItemResource")

C20_Witness ==
    /\ op.kind = "Resource_post" /\ Succeeded
    /\ op.collAtCall # Null /\ op.collAtCall.items # <<>>
    /\ getItemDescriptors(op.collAtCall.items[1])["title"] = "PUT test comment"
    /\ getItemDescriptors(collection(res).items[1])["title"] = "POST test comment"


\* the call in progress is an upload: uploadFile or addPlugin
Upload ==
    \/ op.kind = "create" /\ op.rel = "uploadedfiles"
    \/ op.kind = "Store_addPlugin"

\* the descriptors of the item an upload resolved to
UploadedItem ==
    IF op.kind = "create" THEN getItemDescriptors(op.result.val.v.coll.items[1])
    ELSE op.result.val.v.data

\* C21: a post given a file blob is one multipart POST carrying the raw data
\* fields and the binary part, not a Collection+JSON template; a successful
\* upload resolves to the first item of the response, whose descriptors are the
\* server's: for the created item, the upload_path (public_repo) of the data.
C21_UploadIsMultipart ==
    Upload
    => /\ \A i \in DOMAIN op.reqs :
             op.reqs[i].method = "POST"
             => /\ i = Len(op.reqs)
                /\ op.reqs[i].ctype = MultipartType
                /\ ~op.reqs[i].body.wrapped
                /\ op.reqs[i].body.file
                /\ op.reqs[i].body.fields =
                     (IF op.kind = "create" THEN CreateData("uploadedfiles")
                      ELSE PluginData(op.reqs[i].body.fields[3].value))
       /\ (Succeeded /\ op.got > 0)
          => \A i \in DOMAIN LastReq.body.fields :
                LET f == LastReq.body.fields[i]
                IN f.name \in DOMAIN UploadedItem => UploadedItem[f.name] = f.value
       /\ (Succeeded /\ op.kind = "create" /\ op.result.val # Undefined) => op.got > 0

C21_Witness ==
    /\ op.kind = "create" /\ op.rel = "uploadedfiles" /\ Succeeded
    /\ op.result.val.t = "ItemResource"
    /\ "upload_path" \in DOMAIN UploadedItem
    /\ UploadedItem["upload_path"] = "/test.txt"
    /\ LastReq.body.file


\* C22: tagFeed(feed_id, tag_id, timeout) applies the caller's timeout to every
\* request of its chain: the feed lookup, the fetch of the taggings list and the
\* POST of the tagging.
C22_TagFeedTimeoutOnEveryRequest ==
    (op.kind = "tagFeed")
    => \A i \in DOMAIN op.reqs : op.reqs[i].timeout = op.timeout


\* a call that found its top-level url undiscovered and discovers it first
LazyDiscovery ==
    /\ cls = "Client" /\ op.kind \in FetchKinds \cup {"create"}
    /\ ~Truthy(op.urlAtCall)

\* C23: setUrls(timeout) sends the entry-point GET with no search parameters and
\* with the given timeout as the request timeout, and the discovery request of a
\* call made with a timeout has that timeout.
C23_SetUrlsUsesGivenTimeout ==
    /\ (op.kind = "setUrls")
       => /\ op.reqs[1].params = Null
          /\ op.reqs[1].timeout = op.timeout
    /\ LazyDiscovery => op.reqs[1].timeout = op.timeout


ModifyKinds == {"Store_modifyPlugin", "Store_modifyPipeline"}
RemoveKinds == {"Store_removePlugin", "Store_removePipeline"}

\* the positions of the PUT and DELETE requests of the call
Writes == {i \in DOMAIN op.reqs : op.reqs[i].method \in {"PUT", "DELETE"}}

\* C24: in modifyPlugin, modifyPipeline, removePlugin and removePipeline a
\* lookup by id answered with zero items ends the call: the promise is rejected
\* with 'Could not find resource with id: <id>' and no PUT or DELETE request is
\* sent; a PUT or DELETE is sent only after a lookup that found an item.
C24_EmptyLookupSendsNoWrite ==
    (op.kind \in ModifyKinds \cup RemoveKinds)
    => /\ op.found = Null
          => /\ Done
             /\ op.result = Rejected(CouldNotFind(op.id))
             /\ op.result.val.v.message = "Could not find resource with id: "
                                             \o ToString(op.id)
             /\ Writes = {}
             /\ LastReq.method = "GET" /\ LastReq.params = Obj(op.id)
       /\ Writes # {} => op.found \notin {Undefined, Null}

C24_Witness ==
    /\ op.kind = "Store_modifyPipeline" /\ op.found = Null
    /\ Len(op.reqs) = 2 /\ op.result.st = "rejected"


\* C25: a removal is ordered: the DELETE is the last request of the call, sent
\* once the lookup GET has been answered, to the href of the first item of that
\* answer; the promise is pending while the DELETE is in flight, resolves with
\* no value only after the DELETE succeeded and rejects with the failure of the
\* DELETE when it fails.
C25_RemovalIsOrdered ==
    (op.kind \in RemoveKinds)
    => /\ \A i \in DOMAIN op.reqs :
             op.reqs[i].method = "DELETE"
             => /\ i = Len(op.reqs) /\ i > 1
                /\ op.reqs[i - 1].method = "GET"
                /\ op.reqs[i - 1].params = Obj(op.id)
                /\ op.found \notin {Undefined, Null}
                /\ op.reqs[i].url = Str(op.found.v.href)
       /\ op.pc = "s_delete" => op.result.st = "pending"
       /\ Succeeded
          => /\ LastReq.method = "DELETE"
             /\ op.fail = Null
             /\ op.result.val = Undefined
       /\ (Done /\ op.fail # Null)
          => op.result = Rejected(TransportFailure(LastReq, op.fail.v))

C25_Witness ==
    /\ op.kind = "Store_removePipeline" /\ Succeeded
    /\ Len(op.reqs) = 3 /\ op.got = 2

\* the value of the field of a request body
Field(body, name) == getItemDescriptors([data |-> body.fields])[name]

\* C26: the PUT of modifyPlugin(id, publicRepo, newOwner) goes to the href of
\* the looked-up item, as a template whose public_repo is publicRepo when it is
\* non-empty and otherwise the public_repo of the looked-up item, and which has
\* an owner field, equal to newOwner, exactly when newOwner is non-empty.
C26_ModifyPluginPut ==
    (op.kind = "Store_modifyPlugin")
    => \A i \in DOMAIN op.reqs :
          op.reqs[i].method = "PUT"
          => LET body == op.reqs[i].body
                 publicRepo == op.data[1].value
                 newOwner == op.data[2].value
             IN /\ op.found \notin {Undefined, Null}
                /\ op.reqs[i].url = Str(op.found.v.href)
                /\ body.wrapped
                /\ Field(body, "public_repo") =
                     (IF publicRepo # "" THEN publicRepo
                      ELSE getItemDescriptors(op.found.v)["public_repo"])
                /\ ("owner" \in DOMAIN getItemDescriptors([data |-> body.fields]))
                     <=> (newOwner # "")
                /\ newOwner # "" => Field(body, "owner") = newOwner
                /\ Len(body.fields) = (IF newOwner # "" THEN 2 ELSE 1)

C26_Witness ==
    /\ op.kind = "Store_modifyPlugin" /\ Succeeded
    /\ op.data[1].value = "" /\ op.data[2].value = ""
    /\ Field(LastReq.body, "public_repo") = CurrentRepo


\* a url value holding one url: a non-empty string or the array of one
OneUrl(x) ==
    /\ x.t \in {"str", "arr"}
    /\ x.t = "arr" => Len(x.v) = 1
    /\ JSToString(x) # ""

\* C27: the two pipelines urls of a StoreClient are both empty, or
\* pipelinesUrl is one url and pipelinesQueryUrl is that url followed by
\* 'search/'; getPipelines sends its request to pipelinesQueryUrl exactly when
\* search parameters are given and to pipelinesUrl otherwise.
C27_PipelinesUrlsArePaired ==
    (cls = "StoreClient")
    => /\ \/ pipelinesUrl = Str("") /\ pipelinesQueryUrl = Str("")
          \/ /\ OneUrl(pipelinesUrl)
             /\ pipelinesQueryUrl = Str(JSToString(pipelinesUrl) \o "search/")
       /\ (op.kind = "Store_getPipelines")
          => \A i \in DOMAIN op.reqs :
                op.reqs[i].url # storeUrl
                => op.reqs[i].url = (IF Truthy(op.sp) THEN pipelinesQueryUrl
                                     ELSE pipelinesUrl)

\* C28: a cached top-level url that counts as discovered holds a non-empty
\* url: a relation the entry point did not advertise leaves its url
\* undiscovered, and a call that finds its url empty discovers before it sends
\* its request.
C28_EmptyUrlStaysUndiscovered ==
    /\ (cls = "Client" /\ ctor.st = "ok")
       => \A r \in Rels : Truthy(urls[r]) => JSToString(urls[r]) # ""
    /\ (cls = "StoreClient")
       => /\ Truthy(pipelinesUrl) => JSToString(pipelinesUrl) # ""
          /\ Truthy(pipelinesQueryUrl) => pipelinesQueryUrl # Str("search/")
    /\ (op.kind \in FetchKinds \cup {"create"} /\ JSToString(op.urlAtCall) = "")
       => op.reqs[1].url = feedsUrl


\* the operations built on runAsyncTask
RunAsyncKinds ==
    ModifyKinds \cup RemoveKinds \cup RelatedKinds
    \cup {"Store_getUser", "Store_updateUser"}

\* C30: the promise of an operation built on runAsyncTask is settled once no
\* request of the operation is in flight, whatever the server answered, a
\* successful write response without items included.
C30_TaskPromiseSettles ==
    (op.kind \in RunAsyncKinds /\ op.pc \notin StorePcs)
    => op.result.st # "pending"


\* the url of the entry point of the client
EntryUrl == IF cls = "Client" THEN feedsUrl ELSE storeUrl

\* the calls that sent a request to the entry point
Discoverers ==
    {i \in Callers : \E j \in DOMAIN op.calls[i].reqs : op.calls[i].reqs[j].url = EntryUrl}

\* C29: of the calls issued concurrently on a fresh client at most one sends a
\* discovery request, and whatever the order of the responses the request of a
\* call for its resource goes to the url advertised for its relation, which is
\* the url the client has cached.
C29_ConcurrentCallsShareDiscovery ==
    /\ Cardinality(Discoverers) <= 1
    /\ \A i \in Callers : \A j \in DOMAIN op.calls[i].reqs :
          LET req == op.calls[i].reqs[j]
          IN req.url # EntryUrl
             => /\ OneUrl(req.url)
                /\ cls = "Client" => req.url = urls[op.calls[i].rel]

====
